---- MODULE Spec2Model ----
(***************************************************************************)
(* GameForge backend: the {info, compute} contract of the simulation       *)
(* modules, the game registry and the /api routes, as a state machine.     *)
(*                                                                         *)
(* One compute() call is a run: pc walks "call" -> "loop" -> "returned"    *)
(* (or "raised", with the Python exception in err).  The locals of the     *)
(* compute() body live in the record loc, under their source names.        *)
(* Python floats are modelled as exact rationals (records num/den) or as   *)
(* scaled integers; random draws are nondeterministic choices.             *)
(***************************************************************************)
EXTENDS Integers, Sequences, FiniteSets, TLC

VARIABLES
    game,        \* the module whose compute() runs (its registry key)
    config,      \* the config dict handed to compute(): a function on the keys present
    pc,          \* "call" | "loop" | "returned" | "raised" (+ registry: "idle")
    r,           \* rounds executed so far (the loop variable after its last pass)
    loc,         \* the locals of compute()
    round_data,  \* the RoundData list built by the loop
    err,         \* the exception compute() raised, or None
    result,      \* the SimulationResult returned, or None
    _GAMES,      \* the registry dict of registry.py
    call,        \* registry / route operation last invoked, with its argument
    ret          \* what that operation returned (or the HTTP response it answered)

vars == <<game, config, pc, r, loc, round_data, err, result, _GAMES, call, ret>>

runVars == <<game, config, pc, r, loc, round_data, err, result>>
regVars == <<_GAMES, call, ret>>

None == "None"

----
\* Python helpers

\* dict.get(key, default)
Get(d, key, default) == IF key \in DOMAIN d THEN d[key] ELSE default

IndexError == "IndexError"
KeyError == "KeyError"
ZeroDivisionError == "ZeroDivisionError"

\* s[-1]
PyLast(s) == IF Len(s) = 0 THEN IndexError ELSE s[Len(s)]

\* s[-k:]
PyTail(s, k) == IF Len(s) <= k THEN s ELSE SubSeq(s, Len(s) - k + 1, Len(s))

\* s.count(x)
Count(s, x) == Cardinality({i \in 1..Len(s) : s[i] = x})

Abs(x) == IF x < 0 THEN -x ELSE x

RECURSIVE GCD(_, _)
GCD(a, b) == IF b = 0 THEN a ELSE GCD(b, a % b)

\* a / b on numbers, b # 0: the exact quotient as a normalised fraction
Frac(a, b) ==
    LET g == GCD(Abs(a), Abs(b))
        s == IF b < 0 THEN -1 ELSE 1
    IN  [num |-> (s * a) \div g, den |-> (s * b) \div g]

\* a / b as Python evaluates it: the quotient, or the exception raised
PyDiv(a, b) == IF b = 0 THEN [exc |-> ZeroDivisionError] ELSE Frac(a, b)

\* whether a PyDiv value is a raised exception
IsExc(x) == "exc" \in DOMAIN x

\* no object (None where a record is expected)
NoneRec == [none |-> TRUE]

\* an integer as a quotient
FromInt(n) == [num |-> n, den |-> 1]

\* x + y, x - y, x * y on quotients, over the least common denominator
RAdd(x, y) ==
    LET g == GCD(x.den, y.den)
    IN  Frac(x.num * (y.den \div g) + y.num * (x.den \div g), (x.den \div g) * y.den)
RSub(x, y) ==
    LET g == GCD(x.den, y.den)
    IN  Frac(x.num * (y.den \div g) - y.num * (x.den \div g), (x.den \div g) * y.den)
RMul(x, y) ==
    LET g1 == GCD(Abs(x.num), y.den)
        g2 == GCD(Abs(y.num), x.den)
    IN  Frac((x.num \div g1) * (y.num \div g2), (x.den \div g2) * (y.den \div g1))

\* x / y on quotients as Python evaluates it
RDiv(x, y) == IF y.num = 0 THEN [exc |-> ZeroDivisionError]
              ELSE Frac(x.num * y.den, x.den * y.num)

\* x < y, x <= y on quotients (denominators are positive)
RLess(x, y) ==
    LET g == GCD(x.den, y.den)
    IN  x.num * (y.den \div g) < y.num * (x.den \div g)
RLeq(x, y) ==
    LET g == GCD(x.den, y.den)
    IN  x.num * (y.den \div g) <= y.num * (x.den \div g)

RECURSIVE Pow10(_)
Pow10(n) == IF n = 0 THEN 1 ELSE 10 * Pow10(n - 1)

\* round(x, nd): the nearest multiple of 10^-nd, ties to the even one
Round(x, nd) ==
    LET scaled == x.num * Pow10(nd)
        q == scaled \div x.den
        rem2 == 2 * (scaled - q * x.den)
        up == rem2 > x.den \/ (rem2 = x.den /\ q % 2 = 1)
    IN  Frac(IF up THEN q + 1 ELSE q, Pow10(nd))

\* sum of a list of quotients
RECURSIVE RSum(_)
RSum(s) == IF Len(s) = 0 THEN FromInt(0) ELSE RAdd(s[1], RSum(Tail(s)))

RECURSIVE SumSeq(_)
SumSeq(s) == IF Len(s) = 0 THEN 0 ELSE s[1] + SumSeq(Tail(s))

----
\* The registry (registry.py) and the routes (routes.py)

\* the dict literal _GAMES, in insertion order: key and the instance stored
\* under it (an instance is named by its class)
GAMES_LITERAL ==
    <<
      [key |-> "prisoners_dilemma", instance |-> "PrisonersDilemma"],
      [key |-> "public_goods", instance |-> "PublicGoodsGame"],
      [key |-> "stag_hunt", instance |-> "StagHunt"],
      [key |-> "battle_of_sexes", instance |-> "BattleOfSexes"],
      [key |-> "matching_pennies", instance |-> "MatchingPennies"],
      [key |-> "rock_paper_scissors", instance |-> "RockPaperScissors"],
      [key |-> "ultimatum", instance |-> "UltimatumGame"],
      [key |-> "centipede", instance |-> "CentipedeGame"],
      [key |-> "ess_module", instance |-> "ESSModule"],
      [key |-> "tragedy_of_commons", instance |-> "TragedyOfCommons"],
      [key |-> "auction_mechanisms", instance |-> "AuctionMechanisms"],
      [key |-> "trust_game", instance |-> "TrustGame"],
      [key |-> "voting_game", instance |-> "VotingGame"],
      [key |-> "bayesian_signaling", instance |-> "BayesianSignaling"],
      [key |-> "supply_chain", instance |-> "SupplyChain"],
      [key |-> "stackelberg", instance |-> "Stackelberg"],
      [key |-> "cournot_bertrand", instance |-> "CournotBertrand"],
      [key |-> "reputation_trust", instance |-> "ReputationTrust"],
      [key |-> "el_farol_bar", instance |-> "ElFarolBar"],
      [key |-> "coordination_general", instance |-> "CoordinationGeneral"],
      [key |-> "coalition_formation", instance |-> "CoalitionFormation"],
      [key |-> "pirate_division", instance |-> "PirateDivision"]
    >>

\* info() of an instance of class cls: the GameInfo fields the routes and the
\* catalog order depend on
info(cls) ==
    CASE cls = "PrisonersDilemma" ->
            [id |-> "prisoners_dilemma", category |-> "classical", tier |-> 1, available |-> TRUE]
      [] cls = "PublicGoodsGame" ->
            [id |-> "public_goods", category |-> "classical", tier |-> 1, available |-> TRUE]
      [] cls = "StagHunt" ->
            [id |-> "stag_hunt", category |-> "classical", tier |-> 1, available |-> TRUE]
      [] cls = "BattleOfSexes" ->
            [id |-> "battle_of_sexes", category |-> "classical", tier |-> 1, available |-> TRUE]
      [] cls = "MatchingPennies" ->
            [id |-> "matching_pennies", category |-> "classical", tier |-> 1, available |-> TRUE]
      [] cls = "RockPaperScissors" ->
            [id |-> "rock_paper_scissors", category |-> "classical", tier |-> 1, available |-> TRUE]
      [] cls = "UltimatumGame" ->
            [id |-> "ultimatum", category |-> "classical", tier |-> 1, available |-> TRUE]
      [] cls = "CentipedeGame" ->
            [id |-> "centipede", category |-> "classical", tier |-> 1, available |-> TRUE]
      [] cls = "ESSModule" ->
            [id |-> "ess_module", category |-> "classical", tier |-> 1, available |-> TRUE]
      [] cls = "TragedyOfCommons" ->
            [id |-> "tragedy_of_commons", category |-> "underrated", tier |-> 2, available |-> TRUE]
      [] cls = "AuctionMechanisms" ->
            [id |-> "auction_mechanisms", category |-> "underrated", tier |-> 2, available |-> TRUE]
      [] cls = "TrustGame" ->
            [id |-> "trust_game", category |-> "underrated", tier |-> 2, available |-> TRUE]
      [] cls = "VotingGame" ->
            [id |-> "voting_game", category |-> "underrated", tier |-> 2, available |-> TRUE]
      [] cls = "BayesianSignaling" ->
            [id |-> "bayesian_signaling", category |-> "underrated", tier |-> 2, available |-> TRUE]
      [] cls = "SupplyChain" ->
            [id |-> "supply_chain", category |-> "underrated", tier |-> 2, available |-> TRUE]
      [] cls = "Stackelberg" ->
            [id |-> "stackelberg", category |-> "underrated", tier |-> 2, available |-> TRUE]
      [] cls = "CournotBertrand" ->
            [id |-> "cournot_bertrand", category |-> "underrated", tier |-> 2, available |-> TRUE]
      [] cls = "ReputationTrust" ->
            [id |-> "reputation_trust", category |-> "underrated", tier |-> 2, available |-> TRUE]
      [] cls = "ElFarolBar" ->
            [id |-> "el_farol_bar", category |-> "innovation", tier |-> 3, available |-> TRUE]
      [] cls = "CoordinationGeneral" ->
            [id |-> "coordination_general", category |-> "underrated", tier |-> 2, available |-> TRUE]
      [] cls = "CoalitionFormation" ->
            [id |-> "coalition_formation", category |-> "innovation", tier |-> 3, available |-> TRUE]
      [] cls = "PirateDivision" ->
            [id |-> "pirate_division", category |-> "innovation", tier |-> 3, available |-> TRUE]

\* the keys of a dict d kept as a sequence of key/instance entries
Keys(d) == {d[i].key : i \in 1..Len(d)}

\* d[key]
DictIndex(d, key) ==
    IF key \in Keys(d)
    THEN [instance |-> (CHOOSE e \in {d[i] : i \in 1..Len(d)} : e.key = key).instance]
    ELSE [exc |-> KeyError]

\* g.info() for the value of a lookup; a raised exception propagates
InfoOf(v) == IF IsExc(v) THEN v ELSE info(v.instance)

----
\* Bounds of the model

\* round counts tried with every strategy pair: MinRounds..MaxRounds
MaxRounds == 3
\* the round count of the spec's determinism test, tried with draw-free strategy pairs
TestRounds == 10
\* noise levels in percent: 0 and one level strictly between 0 and 100
NoisePercent == 10

\* a strategy name that no table holds
Bogus == "no_such_strategy"

\* the dict full without the keys in absent
MkConfig(full, absent) == [k \in DOMAIN full \ absent |-> full[k]]

----
\* The two-player history games: prisoners_dilemma, stag_hunt, battle_of_sexes,
\* matching_pennies, rock_paper_scissors.  Their compute() bodies share one shape.

HistGames == {"prisoners_dilemma", "stag_hunt", "battle_of_sexes",
              "matching_pennies", "rock_paper_scissors"}

\* a strategy call yields the set of values it can return; IndexError when it
\* would index an empty list

\* STRATEGIES of prisoners_dilemma with a tit_for_tat that reads opp[-1]
\* whatever the length of opp
PD_STRATEGIES_Unguarded(name, h, opp) ==
    CASE name = "always_cooperate" -> {"C"}
      [] name = "always_defect" -> {"D"}
      [] name = "random" -> {"C", "D"}
      [] name = "tit_for_tat" -> {PyLast(opp)}
      [] name = "grim_trigger" -> IF Count(opp, "D") > 0 THEN {"D"} ELSE {"C"}
      [] name = "pavlov" ->
            IF Len(h) = 0 THEN {"C"}
            ELSE IF Len(opp) = 0 THEN {IndexError}
            ELSE {IF PyLast(h) = PyLast(opp) THEN "C" ELSE "D"}

\* STRATEGIES with a grim_trigger that keeps its trigger in a flag outside the
\* histories: the flag may be set by an earlier call
PD_STRATEGIES_Remembering(name, h, opp) ==
    CASE name = "always_cooperate" -> {"C"}
      [] name = "always_defect" -> {"D"}
      [] name = "random" -> {"C", "D"}
      [] name = "tit_for_tat" -> IF Len(opp) = 0 THEN {"C"} ELSE {PyLast(opp)}
      [] name = "grim_trigger" -> IF Count(opp, "D") > 0 THEN {"D"} ELSE {"C", "D"}
      [] name = "pavlov" ->
            IF Len(h) = 0 THEN {"C"}
            ELSE IF Len(opp) = 0 THEN {IndexError}
            ELSE {IF PyLast(h) = PyLast(opp) THEN "C" ELSE "D"}

PD_STRATEGIES(name, h, opp) ==
    CASE name = "always_cooperate" -> {"C"}
      [] name = "always_defect" -> {"D"}
      [] name = "random" -> {"C", "D"}
      [] name = "tit_for_tat" -> IF Len(opp) = 0 THEN {"C"} ELSE {PyLast(opp)}
      [] name = "grim_trigger" -> IF Count(opp, "D") > 0 THEN {"D"} ELSE {"C"}
      [] name = "pavlov" ->
            IF Len(h) = 0 THEN {"C"}
            ELSE IF Len(opp) = 0 THEN {IndexError}
            ELSE {IF PyLast(h) = PyLast(opp) THEN "C" ELSE "D"}

PD_NAMES == {"always_cooperate", "always_defect", "random", "tit_for_tat",
             "grim_trigger", "pavlov"}

\* PAYOFF_MATRIX with the two off-diagonal entries exchanged
PAYOFF_MATRIX_Exchanged(a1, a2) ==
    CASE a1 = "C" /\ a2 = "C" -> <<3, 3>>
      [] a1 = "C" /\ a2 = "D" -> <<5, 0>>
      [] a1 = "D" /\ a2 = "C" -> <<0, 5>>
      [] a1 = "D" /\ a2 = "D" -> <<1, 1>>

PAYOFF_MATRIX(a1, a2) ==
    CASE a1 = "C" /\ a2 = "C" -> <<3, 3>>
      [] a1 = "C" /\ a2 = "D" -> <<0, 5>>
      [] a1 = "D" /\ a2 = "C" -> <<5, 0>>
      [] a1 = "D" /\ a2 = "D" -> <<1, 1>>

SH_STRATEGIES(name, h, o) ==
    CASE name = "always_stag" -> {"S"}
      [] name = "always_hare" -> {"H"}
      [] name = "tit_for_tat" -> IF Len(o) = 0 THEN {"S"} ELSE {PyLast(o)}
      [] name = "random" -> {"S", "H"}
      [] name = "cautious" ->
            IF Len(o) = 0 THEN {"S"}
            ELSE {IF Count(PyTail(o, 3), "S") >= 2 THEN "S" ELSE "H"}
      [] name = "pavlov" ->
            IF Len(h) = 0 THEN {"S"}
            ELSE IF Len(o) = 0 THEN {IndexError}
            ELSE {IF PyLast(h) = PyLast(o) THEN "S" ELSE "H"}

SH_NAMES == {"always_stag", "always_hare", "tit_for_tat", "random", "cautious", "pavlov"}

SH_PAYOFF(a1, a2) ==
    CASE a1 = "S" /\ a2 = "S" -> <<4, 4>>
      [] a1 = "S" /\ a2 = "H" -> <<0, 3>>
      [] a1 = "H" /\ a2 = "S" -> <<3, 0>>
      [] a1 = "H" /\ a2 = "H" -> <<3, 3>>

BOS_STRATEGIES(name, h, o) ==
    CASE name = "always_opera" -> {"O"}
      [] name = "always_football" -> {"F"}
      [] name = "alternate" -> {IF Len(h) % 2 = 0 THEN "O" ELSE "F"}
      [] name = "tit_for_tat" -> IF Len(o) = 0 THEN {"O"} ELSE {PyLast(o)}
      [] name = "random" -> {"O", "F"}
      [] name = "stubborn_70" -> {"O", "F"}

BOS_NAMES == {"always_opera", "always_football", "alternate", "tit_for_tat",
              "random", "stubborn_70"}

BOS_PAYOFF(a1, a2) ==
    CASE a1 = "O" /\ a2 = "O" -> <<3, 2>>
      [] a1 = "O" /\ a2 = "F" -> <<0, 0>>
      [] a1 = "F" /\ a2 = "O" -> <<0, 0>>
      [] a1 = "F" /\ a2 = "F" -> <<2, 3>>

MP_PAYOFF(a1, a2) == IF a1 = a2 THEN <<1, -1>> ELSE <<-1, 1>>

MP_Flip(a) == IF a = "H" THEN "T" ELSE "H"

MP_STRATEGIES(name, h, o) ==
    CASE name = "always_heads" -> {"H"}
      [] name = "always_tails" -> {"T"}
      [] name = "random_50" -> {"H", "T"}
      [] name = "biased_70h" -> {"H", "T"}
      [] name = "anti_pattern" ->
            IF Len(o) > 0 THEN {IF PyLast(o) = "H" THEN "T" ELSE "H"} ELSE {"H", "T"}
      [] name = "win_stay_lose_shift" ->
            IF Len(h) = 0 THEN {"H"}
            ELSE IF Len(o) = 0 THEN {IndexError}
            ELSE {IF MP_PAYOFF(PyLast(h), PyLast(o))[1] > 0
                  THEN PyLast(h) ELSE MP_Flip(PyLast(h))}

MP_NAMES == {"always_heads", "always_tails", "random_50", "biased_70h",
             "anti_pattern", "win_stay_lose_shift"}

BEATS(a) == CASE a = "R" -> "S" [] a = "S" -> "P" [] a = "P" -> "R"

_payoff(a, b) ==
    IF a = b THEN <<0, 0>> ELSE IF BEATS(a) = b THEN <<1, -1>> ELSE <<-1, 1>>

\* the {"R":"P","P":"S","S":"R"} dict of beat_last and frequency_counter
RPS_Counter(a) == CASE a = "R" -> "P" [] a = "P" -> "S" [] a = "S" -> "R"

\* max(set(o), key=o.count): a most frequent element; the set's iteration order
\* decides among ties, and it varies with the process's string hashing
RPS_MostFrequent(o) ==
    {a \in {"R", "P", "S"} :
        /\ Count(o, a) > 0
        /\ \A b \in {"R", "P", "S"} : Count(o, b) <= Count(o, a)}

RPS_STRATEGIES(name, h, o) ==
    CASE name = "random" -> {"R", "P", "S"}
      [] name = "always_rock" -> {"R"}
      [] name = "always_paper" -> {"P"}
      [] name = "always_scissors" -> {"S"}
      [] name = "beat_last" ->
            IF Len(o) > 0 THEN {RPS_Counter(PyLast(o))} ELSE {"R", "P", "S"}
      [] name = "cycle" -> {<<"R", "P", "S">>[(Len(h) % 3) + 1]}
      [] name = "frequency_counter" ->
            IF Len(o) > 0 THEN {RPS_Counter(a) : a \in RPS_MostFrequent(o)}
            ELSE {"R", "P", "S"}

RPS_NAMES == {"random", "always_rock", "always_paper", "always_scissors",
              "beat_last", "cycle", "frequency_counter"}

\* STRATEGIES of each module
STRATEGY_NAMES(g) ==
    CASE g = "prisoners_dilemma" -> PD_NAMES
      [] g = "stag_hunt" -> SH_NAMES
      [] g = "battle_of_sexes" -> BOS_NAMES
      [] g = "matching_pennies" -> MP_NAMES
      [] g = "rock_paper_scissors" -> RPS_NAMES

\* calling STRATEGIES[name](h, o) in module g
STRATEGIES(g, name, h, o) ==
    CASE g = "prisoners_dilemma" -> PD_STRATEGIES(name, h, o)
      [] g = "stag_hunt" -> SH_STRATEGIES(name, h, o)
      [] g = "battle_of_sexes" -> BOS_STRATEGIES(name, h, o)
      [] g = "matching_pennies" -> MP_STRATEGIES(name, h, o)
      [] g = "rock_paper_scissors" -> RPS_STRATEGIES(name, h, o)

PAYOFF(g, a1, a2) ==
    CASE g = "prisoners_dilemma" -> PAYOFF_MATRIX(a1, a2)
      [] g = "stag_hunt" -> SH_PAYOFF(a1, a2)
      [] g = "battle_of_sexes" -> BOS_PAYOFF(a1, a2)
      [] g = "matching_pennies" -> MP_PAYOFF(a1, a2)
      [] g = "rock_paper_scissors" -> _payoff(a1, a2)

\* the config key of each role's strategy
KeyP1(g) == IF g = "matching_pennies" THEN "strategy_matcher" ELSE "strategy_p1"
KeyP2(g) == IF g = "matching_pennies" THEN "strategy_mismatcher" ELSE "strategy_p2"

\* the default compute() passes to config.get for each role's strategy
\* one default for every module
ComputeDefaultP1_Uniform(g) == "tit_for_tat"

ComputeDefaultP1(g) ==
    CASE g = "prisoners_dilemma" -> "tit_for_tat"
      [] g = "stag_hunt" -> "tit_for_tat"
      [] g = "battle_of_sexes" -> "stubborn_70"
      [] g = "matching_pennies" -> "random_50"
      [] g = "rock_paper_scissors" -> "beat_last"

ComputeDefaultP2(g) ==
    CASE g = "prisoners_dilemma" -> "always_defect"
      [] g = "stag_hunt" -> "cautious"
      [] g = "battle_of_sexes" -> "tit_for_tat"
      [] g = "matching_pennies" -> "anti_pattern"
      [] g = "rock_paper_scissors" -> "frequency_counter"

\* the second argument of STRATEGIES.get(name, ...): the strategy used for a
\* name the table does not hold
FallbackStrategy(g) == IF g = "matching_pennies" THEN "random_50" ELSE "random"

\* STRATEGIES.get(name, STRATEGIES[fallback]), as the name of the function it yields
ResolveStrategy(g, name) ==
    IF name \in STRATEGY_NAMES(g) THEN name ELSE FallbackStrategy(g)

\* info().parameters of each module: the declared default of each parameter
InfoDefaults(g) ==
    CASE g = "prisoners_dilemma" ->
            [rounds |-> 100, noise |-> 0,
             strategy_p1 |-> "tit_for_tat", strategy_p2 |-> "always_defect"]
      [] g = "stag_hunt" ->
            [rounds |-> 100, strategy_p1 |-> "tit_for_tat", strategy_p2 |-> "cautious"]
      [] g = "battle_of_sexes" ->
            [rounds |-> 100, strategy_p1 |-> "stubborn_70", strategy_p2 |-> "tit_for_tat"]
      [] g = "matching_pennies" ->
            [rounds |-> 200, strategy_matcher |-> "random_50",
             strategy_mismatcher |-> "anti_pattern"]
      [] g = "rock_paper_scissors" ->
            [rounds |-> 200, strategy_p1 |-> "beat_last",
             strategy_p2 |-> "frequency_counter"]

\* the noise step of prisoners_dilemma (lines 92-96): the actions a can become.
\* random.random() < noise can hold when noise > 0 and can fail when noise < 1.
ApplyNoise(g, noise, a) ==
    IF g = "prisoners_dilemma" /\ noise > 0
    THEN (IF noise < 100 THEN {a} ELSE {}) \cup {IF a = "C" THEN "D" ELSE "C"}
    ELSE {a}

ComputeDefaultRounds(g) ==
    IF g \in {"matching_pennies", "rock_paper_scissors"} THEN 200 ELSE 100

\* what one round adds to the module's counter (coop_count, stag_count, coord,
\* match_count; rock_paper_scissors keeps counts[a1] instead)
CountInc(g, a1, a2) ==
    CASE g = "prisoners_dilemma" ->
            (IF a1 = "C" THEN 1 ELSE 0) + (IF a2 = "C" THEN 1 ELSE 0)
      [] g = "stag_hunt" ->
            (IF a1 = "S" THEN 1 ELSE 0) + (IF a2 = "S" THEN 1 ELSE 0)
      [] g \in {"battle_of_sexes", "matching_pennies"} -> IF a1 = a2 THEN 1 ELSE 0
      [] g = "rock_paper_scissors" -> 0

\* the state dict of the RoundData of round rr, from the aggregates after it
RoundState(g, l, rr) ==
    CASE g = "prisoners_dilemma" ->
            [cumulative |-> <<l.tot1, l.tot2>>, coop_rate |-> PyDiv(l.count, 2 * rr)]
      [] g = "stag_hunt" ->
            [cumulative |-> <<l.tot1, l.tot2>>, stag_rate |-> PyDiv(l.count, 2 * rr)]
      [] g = "battle_of_sexes" ->
            [cumulative |-> <<l.tot1, l.tot2>>, coordination_rate |-> PyDiv(l.count, rr)]
      [] g = "matching_pennies" ->
            [cumulative |-> <<l.tot1, l.tot2>>, match_rate |-> PyDiv(l.count, rr)]
      [] g = "rock_paper_scissors" ->
            [cumulative |-> <<l.tot1, l.tot2>>,
             p1_rock_rate |-> PyDiv(l.counts["R"], rr),
             p1_paper_rate |-> PyDiv(l.counts["P"], rr),
             p1_scissors_rate |-> PyDiv(l.counts["S"], rr)]

\* wins1 / wins2 of rock_paper_scissors (lines 55-56)
RPS_Wins(h1, h2, sign) ==
    Cardinality({i \in 1..Len(h1) : sign * _payoff(h1[i], h2[i])[1] > 0})

\* the summary dict built by the return statement
HistSummary(g, l) ==
    CASE g = "prisoners_dilemma" ->
            [total_payoff_p1 |-> l.tot1, total_payoff_p2 |-> l.tot2,
             avg_payoff_p1 |-> PyDiv(l.tot1, l.rounds),
             avg_payoff_p2 |-> PyDiv(l.tot2, l.rounds),
             cooperation_rate |-> PyDiv(l.count, 2 * l.rounds),
             strategy_p1 |-> l.s1_name, strategy_p2 |-> l.s2_name]
      [] g = "stag_hunt" ->
            [total_payoff_p1 |-> l.tot1, total_payoff_p2 |-> l.tot2,
             avg_payoff_p1 |-> PyDiv(l.tot1, l.rounds),
             avg_payoff_p2 |-> PyDiv(l.tot2, l.rounds),
             stag_rate |-> PyDiv(l.count, 2 * l.rounds)]
      [] g = "battle_of_sexes" ->
            [total_payoff_p1 |-> l.tot1, total_payoff_p2 |-> l.tot2,
             avg_payoff_p1 |-> PyDiv(l.tot1, l.rounds),
             avg_payoff_p2 |-> PyDiv(l.tot2, l.rounds),
             coordination_rate |-> PyDiv(l.count, l.rounds)]
      [] g = "matching_pennies" ->
            [total_payoff_matcher |-> l.tot1, total_payoff_mismatcher |-> l.tot2,
             avg_payoff_matcher |-> PyDiv(l.tot1, l.rounds),
             match_rate |-> PyDiv(l.count, l.rounds)]
      [] g = "rock_paper_scissors" ->
            [p1_wins |-> RPS_Wins(l.h1, l.h2, 1), p2_wins |-> RPS_Wins(l.h1, l.h2, -1),
             draws |-> l.rounds - RPS_Wins(l.h1, l.h2, 1) - RPS_Wins(l.h1, l.h2, -1),
             p1_win_rate |-> PyDiv(RPS_Wins(l.h1, l.h2, 1), l.rounds),
             avg_payoff_p1 |-> PyDiv(l.tot1, l.rounds),
             avg_payoff_p2 |-> PyDiv(l.tot2, l.rounds)]

\* the summary fields that are quotients
QuotientFields ==
    {"avg_payoff_p1", "avg_payoff_p2", "avg_payoff_matcher", "cooperation_rate",
     "stag_rate", "coordination_rate", "match_rate", "p1_win_rate"}

\* building the summary raises when one of its divisions does
SummaryRaises(summary) ==
    \E k \in DOMAIN summary \cap QuotientFields :
        IsExc(summary[k])

\* the locals of compute() when its loop starts: the config read, the
\* strategies resolved, the aggregates at zero
HistLocals(g, c) ==
    LET s1_name == Get(c, KeyP1(g), ComputeDefaultP1(g))
        s2_name == Get(c, KeyP2(g), ComputeDefaultP2(g))
    IN  [rounds |-> Get(c, "rounds", ComputeDefaultRounds(g)),
         noise |-> Get(c, "noise", 0),
         s1_name |-> s1_name, s2_name |-> s2_name,
         s1 |-> ResolveStrategy(g, s1_name),
         s2 |-> ResolveStrategy(g, s2_name),
         h1 |-> <<>>, h2 |-> <<>>,
         tot1 |-> 0, tot2 |-> 0, count |-> 0,
         counts |-> [a \in {"R", "P", "S"} |-> 0]]

\* compute(), up to the loop
HistCall ==
    /\ pc = "call"
    /\ game \in HistGames
    /\ loc' = HistLocals(game, config)
    /\ pc' = "loop"
    /\ r' = 0
    /\ round_data' = <<>>
    /\ UNCHANGED <<game, config, err, result, regVars>>

\* the loop body without its h2.append(a2)
HistAccumulate_NoOppAppend(g, l, a1, a2) ==
    [l EXCEPT !.tot1 = @ + PAYOFF(g, a1, a2)[1],
              !.tot2 = @ + PAYOFF(g, a1, a2)[2],
              !.count = @ + CountInc(g, a1, a2),
              !.counts = IF g = "rock_paper_scissors"
                         THEN [@ EXCEPT ![a1] = @ + 1] ELSE @,
              !.h1 = Append(@, a1)]

\* the aggregates after a round in which a1 and a2 were played
\* the loop body with each action put at the front of its history list
HistAccumulate_Prepend(g, l, a1, a2) ==
    [l EXCEPT !.tot1 = @ + PAYOFF(g, a1, a2)[1],
              !.tot2 = @ + PAYOFF(g, a1, a2)[2],
              !.count = @ + CountInc(g, a1, a2),
              !.counts = IF g = "rock_paper_scissors"
                         THEN [@ EXCEPT ![a1] = @ + 1] ELSE @,
              !.h1 = <<a1>> \o @,
              !.h2 = <<a2>> \o @]

HistAccumulate(g, l, a1, a2) ==
    [l EXCEPT !.tot1 = @ + PAYOFF(g, a1, a2)[1],
              !.tot2 = @ + PAYOFF(g, a1, a2)[2],
              !.count = @ + CountInc(g, a1, a2),
              !.counts = IF g = "rock_paper_scissors"
                         THEN [@ EXCEPT ![a1] = @ + 1] ELSE @,
              !.h1 = Append(@, a1),
              !.h2 = Append(@, a2)]

\* one pass of the loop body
HistRound ==
    /\ pc = "loop"
    /\ game \in HistGames
    /\ r < loc.rounds
    /\ \E c1 \in STRATEGIES(game, loc.s1, loc.h1, loc.h2),
          c2 \in STRATEGIES(game, loc.s2, loc.h2, loc.h1) :
          IF c1 = IndexError \/ c2 = IndexError
          THEN /\ pc' = "raised"
               /\ err' = IndexError
               /\ UNCHANGED <<r, loc, round_data>>
          ELSE \E a1 \in ApplyNoise(game, loc.noise, c1),
                  a2 \in ApplyNoise(game, loc.noise, c2) :
                  LET l2 == HistAccumulate(game, loc, a1, a2)
                  IN  /\ loc' = l2
                      /\ r' = r + 1
                      /\ round_data' = Append(round_data,
                            [round_num |-> r + 1, actions |-> <<a1, a2>>,
                             payoffs |-> PAYOFF(game, a1, a2),
                             state |-> RoundState(game, l2, r + 1)])
                      /\ UNCHANGED <<pc, err>>
    /\ UNCHANGED <<game, config, result, regVars>>

\* the return statement: build the SimulationResult, or raise from a division
HistReturn ==
    /\ pc = "loop"
    /\ game \in HistGames
    /\ r >= loc.rounds
    /\ LET summary == HistSummary(game, loc)
       IN  IF SummaryRaises(summary)
           THEN /\ pc' = "raised"
                /\ err' = ZeroDivisionError
                /\ UNCHANGED result
           ELSE /\ pc' = "returned"
                /\ result' = [game_id |-> game, config |-> config,
                              rounds |-> round_data, summary |-> summary]
                /\ UNCHANGED err
    /\ UNCHANGED <<game, config, r, loc, round_data, regVars>>

\* strategy names whose function draws nothing at random in any round
DrawFree(g) ==
    CASE g = "prisoners_dilemma" -> PD_NAMES \ {"random"}
      [] g = "stag_hunt" -> SH_NAMES \ {"random"}
      [] g = "battle_of_sexes" -> BOS_NAMES \ {"random", "stubborn_70"}
      [] g = "matching_pennies" -> {"always_heads", "always_tails", "win_stay_lose_shift"}
      [] g = "rock_paper_scissors" ->
            {"always_rock", "always_paper", "always_scissors", "cycle"}

\* the configs tried for module g: every round count in -1..MaxRounds with every
\* strategy name, a name no table holds, and the key left out; TestRounds with
\* the draw-free strategies
HistConfigs(g) ==
    LET names == STRATEGY_NAMES(g) \cup {Bogus}
        noises == IF g = "prisoners_dilemma" THEN {0, NoisePercent} ELSE {0}
        short == {MkConfig([rounds |-> n, noise |-> z, p1 |-> a, p2 |-> b], absent) :
                    n \in -1..MaxRounds, z \in noises, a \in names, b \in names,
                    absent \in SUBSET {"p1", "p2"}}
        long == {[rounds |-> TestRounds, noise |-> 0, p1 |-> a, p2 |-> b] :
                    a \in DrawFree(g), b \in DrawFree(g)}
        keyed(c) == [k \in {IF x = "p1" THEN KeyP1(g) ELSE IF x = "p2" THEN KeyP2(g)
                            ELSE x : x \in DOMAIN c} |->
                        IF k = KeyP1(g) THEN c.p1 ELSE IF k = KeyP2(g) THEN c.p2 ELSE c[k]]
    IN  {keyed(c) : c \in short \cup long}

RegIdle == _GAMES = GAMES_LITERAL /\ call = NoneRec /\ ret = NoneRec

InitHist ==
    /\ game \in HistGames
    /\ config \in HistConfigs(game)
    /\ pc = "call"
    /\ r = 0
    /\ loc = NoneRec
    /\ round_data = <<>>
    /\ err = None
    /\ result = NoneRec
    /\ RegIdle

NextHist == HistCall \/ HistRound \/ HistReturn

SpecHist == InitHist /\ [][NextHist]_vars

----
\* Claims about the two-player history games (checked under SpecHist)

PD == "prisoners_dilemma"

\* the run has ended, by a return or by an exception
Ended == pc \in {"returned", "raised"}

C1_Config ==
    /\ game = PD
    /\ Get(config, "strategy_p1", Bogus) = "always_cooperate"
    /\ Get(config, "strategy_p2", Bogus) = "always_defect"
    /\ Get(config, "noise", 0) = 0
    /\ config["rounds"] >= 1

\* C1: in prisoners_dilemma, always_cooperate against always_defect with noise 0
\* over N >= 1 rounds returns total_payoff_p1 = 0 and total_payoff_p2 = 5 * N
\* (N = 10 gives (0, 50)); the run does not raise.
C1_DefectorTakesAll ==
    (C1_Config /\ Ended) =>
        /\ pc = "returned"
        /\ result.summary.total_payoff_p1 = 0
        /\ result.summary.total_payoff_p2 = 5 * config["rounds"]

C1_Witness ==
    /\ C1_Config
    /\ config["rounds"] = TestRounds
    /\ pc = "returned"
    /\ result.summary.total_payoff_p1 = 0
    /\ result.summary.total_payoff_p2 = 5 * TestRounds
    /\ Len(result.rounds) = TestRounds

\* C2: a run configured with rounds < 0 ends by signalling InvalidConfiguration
\* and never by returning a SimulationResult.
C2_NegativeRoundsRejected ==
    (Ended /\ config["rounds"] < 0) =>
        (pc = "raised" /\ err = "InvalidConfiguration")

\* C7: a strategy name the table does not hold resolves to the default that
\* info() declares for the role's parameter.
C7_FallbackIsDeclaredDefault ==
    pc # "call" =>
        /\ loc.s1_name \notin STRATEGY_NAMES(game) =>
                loc.s1 = InfoDefaults(game)[KeyP1(game)]
        /\ loc.s2_name \notin STRATEGY_NAMES(game) =>
                loc.s2 = InfoDefaults(game)[KeyP2(game)]

\* the actions of each game: the keys of its payoff table
GameActions(g) ==
    CASE g = "prisoners_dilemma" -> {"C", "D"}
      [] g = "stag_hunt" -> {"S", "H"}
      [] g = "battle_of_sexes" -> {"O", "F"}
      [] g = "matching_pennies" -> {"H", "T"}
      [] g = "rock_paper_scissors" -> {"R", "P", "S"}

\* C8: no strategy call of a two-player history game indexes an empty history:
\* no run raises IndexError, every recorded action is an action of the game, and
\* at the start of round r + 1 both histories have length r.
C8_NoEmptyHistoryIndex ==
    (game \in HistGames /\ pc # "call") =>
        /\ err # IndexError
        /\ Len(loc.h1) = r /\ Len(loc.h2) = r
        /\ \A i \in 1..Len(round_data) :
              /\ round_data[i].actions[1] \in GameActions(game)
              /\ round_data[i].actions[2] \in GameActions(game)

\* strategies that read the last element of a history
ReadsLast == {"tit_for_tat", "pavlov", "win_stay_lose_shift", "anti_pattern",
              "beat_last", "frequency_counter", "cautious"}

C8_Witness ==
    /\ game \in HistGames
    /\ pc = "returned"
    /\ loc.rounds = 1
    /\ loc.s1 \in {"pavlov", "win_stay_lose_shift"}
    /\ loc.s2 \in ReadsLast
    /\ Len(round_data) = 1

----
\* Registry lookups and routes as operations

\* identifiers that are not keys of _GAMES
UnknownIds == {"nonexistent_id", "quantum_game", ""}

RequestIds == Keys(GAMES_LITERAL) \cup UnknownIds

\* get_game(game_id): _GAMES.get(game_id)
get_game(game_id) ==
    IF game_id \in Keys(_GAMES) THEN DictIndex(_GAMES, game_id) ELSE NoneRec

\* get_game_info(game_id) without its membership test
get_game_info_Unguarded(game_id) == InfoOf(DictIndex(_GAMES, game_id))

\* get_game_info(game_id)
get_game_info(game_id) ==
    IF game_id \in Keys(_GAMES) THEN InfoOf(DictIndex(_GAMES, game_id)) ELSE NoneRec

\* get_all_game_info()
get_all_game_info == [i \in 1..Len(_GAMES) |-> info(_GAMES[i].instance)]

\* no request is being served
NoRun == pc = "idle"

\* a get_game that registers the identifier it does not find
GetGame_Registering ==
    /\ NoRun
    /\ \E id \in RequestIds :
          /\ call' = [op |-> "get_game", game_id |-> id]
          /\ ret' = get_game(id)
          /\ _GAMES' = IF id \in Keys(_GAMES) THEN _GAMES
                        ELSE Append(_GAMES, [key |-> id, instance |-> "PrisonersDilemma"])
    /\ UNCHANGED runVars

\* a call of get_game from outside the routes
GetGame ==
    /\ NoRun
    /\ \E id \in RequestIds :
          /\ call' = [op |-> "get_game", game_id |-> id]
          /\ ret' = get_game(id)
    /\ UNCHANGED <<runVars, _GAMES>>

\* a call of get_game_info from outside the routes
GetGameInfo ==
    /\ NoRun
    /\ \E id \in RequestIds :
          /\ call' = [op |-> "get_game_info", game_id |-> id]
          /\ ret' = get_game_info(id)
    /\ UNCHANGED <<runVars, _GAMES>>

\* GET /api/games
list_games ==
    /\ NoRun
    /\ call' = [op |-> "list_games"]
    /\ ret' = [status |-> 200, body |-> get_all_game_info]
    /\ UNCHANGED <<runVars, _GAMES>>

\* GET /api/games/{game_id}
game_detail ==
    /\ NoRun
    /\ \E id \in RequestIds :
          /\ call' = [op |-> "game_detail", game_id |-> id]
          /\ ret' = LET i == get_game_info(id)
                    IN  IF IsExc(i) THEN [status |-> 500, detail |-> i.exc]
                        ELSE IF i = NoneRec THEN [status |-> 404, detail |-> "not found"]
                        ELSE [status |-> 200, body |-> i]
    /\ UNCHANGED <<runVars, _GAMES>>

\* the configs sent to POST /api/simulate
RouteConfigs == {MkConfig([rounds |-> n], {}) : n \in 0..1}

\* the modules whose compute() is modelled step by step under the route
RouteStepped == HistGames

\* POST /api/simulate, up to the call of game.compute(req.config): answer 501
\* or 404 when get_game finds nothing, else enter compute
run_simulation ==
    /\ NoRun
    /\ \E id \in RequestIds, cfg \in RouteConfigs :
          /\ call' = [op |-> "run_simulation", game_id |-> id]
          /\ IF get_game(id) = NoneRec
             THEN /\ ret' = LET i == get_game_info(id)
                            IN  IF IsExc(i) THEN [status |-> 500, detail |-> i.exc]
                                ELSE IF i # NoneRec /\ ~i.available
                                THEN [status |-> 501, detail |-> "coming soon"]
                                ELSE [status |-> 404, detail |-> "not found"]
                  /\ UNCHANGED runVars
             ELSE /\ ret' = NoneRec
                  /\ game' = id
                  /\ config' = cfg
                  /\ pc' = "call"
                  /\ r' = 0
                  /\ loc' = NoneRec
                  /\ round_data' = <<>>
                  /\ err' = None
                  /\ result' = NoneRec
    /\ UNCHANGED _GAMES

\* compute() of a module that is not modelled step by step: it returns a
\* result or raises
OtherCompute ==
    /\ pc = "call"
    /\ game \notin RouteStepped
    /\ \/ /\ pc' = "returned"
          /\ result' = [game_id |-> game, config |-> config]
          /\ UNCHANGED err
       \/ /\ pc' = "raised"
          /\ err' \in {ZeroDivisionError, IndexError}
          /\ UNCHANGED result
    /\ UNCHANGED <<game, config, r, loc, round_data, regVars>>

\* a handler without the except clause's answer: a run that raised is answered
\* with the rounds it had completed
run_simulation_respond_Partial ==
    /\ call # NoneRec
    /\ call.op = "run_simulation"
    /\ ret = NoneRec
    /\ pc \in {"returned", "raised"}
    /\ ret' = IF pc = "raised"
              THEN [status |-> 200,
                    body |-> [game_id |-> game, config |-> config, rounds |-> round_data]]
              ELSE [status |-> 200, body |-> result]
    /\ game' = None
    /\ config' = <<>>
    /\ pc' = "idle"
    /\ r' = 0
    /\ loc' = NoneRec
    /\ round_data' = <<>>
    /\ err' = None
    /\ result' = NoneRec
    /\ UNCHANGED <<_GAMES, call>>

\* POST /api/simulate, after compute: the result, or 500 for any exception;
\* the handler returns and the locals of the run are gone
run_simulation_respond ==
    /\ call # NoneRec
    /\ call.op = "run_simulation"
    /\ ret = NoneRec
    /\ pc \in {"returned", "raised"}
    /\ ret' = IF pc = "raised"
              THEN [status |-> 500, detail |-> err]
              ELSE [status |-> 200, body |-> result]
    /\ game' = None
    /\ config' = <<>>
    /\ pc' = "idle"
    /\ r' = 0
    /\ loc' = NoneRec
    /\ round_data' = <<>>
    /\ err' = None
    /\ result' = NoneRec
    /\ UNCHANGED <<_GAMES, call>>

InitRegistry ==
    /\ game = None
    /\ config = <<>>
    /\ pc = "idle"
    /\ r = 0
    /\ loc = NoneRec
    /\ round_data = <<>>
    /\ err = None
    /\ result = NoneRec
    /\ RegIdle

NextRegistry ==
    \/ GetGame \/ GetGameInfo \/ list_games \/ game_detail
    \/ run_simulation \/ run_simulation_respond
    \/ OtherCompute \/ HistCall \/ HistRound \/ HistReturn

SpecRegistry == InitRegistry /\ [][NextRegistry]_vars

----
\* Claims about the registry and the routes (checked under SpecRegistry)

\* a lookup or request for identifier id has been answered
Answered(op, id) ==
    /\ call # NoneRec
    /\ call.op = op
    /\ call.game_id = id
    /\ ret # NoneRec

\* C5: the registry exposes availability apart from runnability: some identifier
\* is known to get_game_info (it has a catalog entry) while get_game returns
\* absence for it, and /simulate answers 501 for such an identifier and 404 for
\* one that get_game_info does not know either.
C5_AvailabilityApartFromRunnability ==
    /\ \E id \in RequestIds : get_game(id) = NoneRec /\ get_game_info(id) # NoneRec
    /\ \A id \in RequestIds :
          (get_game(id) = NoneRec /\ Answered("run_simulation", id)) =>
              ret.status = IF get_game_info(id) # NoneRec THEN 501 ELSE 404

\* C6: for every identifier that is not a key of the registry, get_game and
\* get_game_info return None and do not raise.
C6_UnknownIdIsAbsent ==
    /\ \A id \in RequestIds \ Keys(_GAMES) :
          get_game(id) = NoneRec /\ get_game_info(id) = NoneRec
    /\ (/\ call # NoneRec
        /\ call.op \in {"get_game", "get_game_info"}
        /\ call.game_id \notin Keys(_GAMES)) => ret = NoneRec

C6_Witness ==
    /\ call # NoneRec
    /\ call.op = "get_game_info"
    /\ call.game_id = "nonexistent_id"
    /\ call.game_id \notin Keys(_GAMES)
    /\ ret = NoneRec

----
\* coordination_general

CG == "coordination_general"

CG_NAMES == {"random", "focal_0", "majority_follow", "stubborn", "best_response"}

\* Counter(seq).most_common(1)[0]: the most frequent element and its count; among
\* equally frequent elements the one met first
CG_MostCommon(seq) ==
    LET vals == {seq[i] : i \in 1..Len(seq)}
        first(a) == CHOOSE i \in 1..Len(seq) :
                        seq[i] = a /\ \A j \in 1..(i - 1) : seq[j] # a
        best == CHOOSE a \in vals :
                    \A b \in vals :
                        \/ Count(seq, b) < Count(seq, a)
                        \/ Count(seq, b) = Count(seq, a) /\ first(a) <= first(b)
    IN  <<best, Count(seq, best)>>

\* random.randint(0, n_act - 1)
CG_Randint(n_act) == 0..(n_act - 1)

\* _majority_follow(h, n_act, _id)
_majority_follow(h, n_act, id) ==
    IF Len(h) > 0 /\ Len(h[Len(h)].actions) > 0
    THEN {CG_MostCommon(h[Len(h)].actions)[1]}
    ELSE CG_Randint(n_act)

\* _best_response(h, n_act, _id): max(range(n_act), key=...) is the least
\* action among those counted most often
_best_response(h, n_act, id) ==
    IF Len(h) > 0 /\ Len(h[Len(h)].actions) > 0
    THEN LET flat == h[Len(h)].actions
         IN  {CHOOSE a \in 0..(n_act - 1) :
                  \A b \in 0..(n_act - 1) :
                      \/ Count(flat, b) < Count(flat, a)
                      \/ Count(flat, b) = Count(flat, a) /\ a <= b}
    ELSE CG_Randint(n_act)

\* STRATEGIES[name](h, n_act, pid) of coordination_general
CG_STRATEGIES(name, h, n_act, pid) ==
    CASE name = "random" -> CG_Randint(n_act)
      [] name = "focal_0" -> {0}
      [] name = "majority_follow" -> _majority_follow(h, n_act, pid)
      [] name = "stubborn" -> {pid % 3}
      [] name = "best_response" -> _best_response(h, n_act, pid)

\* STRATEGIES.get(strat_name, STRATEGIES["random"])
CG_Resolve(name) == IF name \in CG_NAMES THEN name ELSE "random"

\* compute(), up to the loop
CGCall ==
    /\ pc = "call"
    /\ game = CG
    /\ loc' = [rounds |-> Get(config, "rounds", 100),
               n_p |-> Get(config, "n_players", 20),
               n_a |-> Get(config, "n_actions", 3),
               bonus |-> Get(config, "coordination_bonus", FromInt(2)),
               strat_name |-> Get(config, "strategy", "best_response"),
               strat |-> CG_Resolve(Get(config, "strategy", "best_response")),
               history |-> <<>>,
               total_welfare |-> FromInt(0)]
    /\ pc' = "loop"
    /\ r' = 0
    /\ round_data' = <<>>
    /\ UNCHANGED <<game, config, err, result, regVars>>

\* the action lists one round can produce: player i (0-based) plays one of
\* the values strat(history, n_a, i) can return
CG_ActionLists(l) ==
    {f \in [1..l.n_p -> 0..2 \cup CG_Randint(l.n_a)] :
        \A i \in 1..l.n_p : f[i] \in CG_STRATEGIES(l.strat, l.history, l.n_a, i - 1)}

\* payoffs_list of a round
CG_Payoffs(l, actions) ==
    [i \in 1..Len(actions) |->
        RAdd(FromInt(1),
             RMul(l.bonus, Frac(Count(actions, actions[i]) - 1,
                                IF l.n_p - 1 > 1 THEN l.n_p - 1 ELSE 1)))]

\* one pass of the loop body
CGRound ==
    /\ pc = "loop"
    /\ game = CG
    /\ r < loc.rounds
    /\ \E actions \in CG_ActionLists(loc) :
          LET payoffs_list == CG_Payoffs(loc, actions)
              total == RSum(payoffs_list)
              avg_payoff == RDiv(total, FromInt(loc.n_p))
          IN  IF IsExc(avg_payoff)
              THEN /\ pc' = "raised"
                   /\ err' = ZeroDivisionError
                   /\ UNCHANGED <<r, loc, round_data>>
              ELSE LET dominant == CG_MostCommon(actions)
                       counts == [a \in {actions[i] : i \in 1..Len(actions)} |->
                                      Count(actions, a)]
                   IN  /\ loc' = [loc EXCEPT
                                    !.total_welfare = RAdd(@, total),
                                    !.history = Append(@, [actions |-> actions,
                                                           counts |-> counts])]
                       /\ r' = r + 1
                       /\ round_data' = Append(round_data,
                             [round_num |-> r + 1, actions |-> <<counts>>,
                              payoffs |-> <<Round(avg_payoff, 2)>>,
                              state |-> [coordination_rate |->
                                            Round(Frac(dominant[2], loc.n_p), 3),
                                         dominant_action |-> dominant[1],
                                         avg_payoff |-> Round(avg_payoff, 2),
                                         n_active_actions |-> Cardinality(DOMAIN counts)]])
                       /\ UNCHANGED <<pc, err>>
    /\ UNCHANGED <<game, config, result, regVars>>

\* convergence_round: the first round whose coordination_rate exceeds 0.8,
\* else rounds
CG_ConvergenceRound(rd, rounds) ==
    LET hit == {i \in 1..Len(rd) : RLess(Frac(8, 10), rd[i].state.coordination_rate)}
    IN  IF hit = {} THEN rounds
        ELSE rd[CHOOSE i \in hit : \A j \in hit : i <= j].round_num

\* the return statement
CGReturn ==
    /\ pc = "loop"
    /\ game = CG
    /\ r >= loc.rounds
    /\ LET final_dominant ==
               IF Len(loc.history) > 0
               THEN CG_MostCommon(loc.history[Len(loc.history)].actions)
               ELSE <<0, 0>>
           percent == PyDiv(100 * final_dominant[2], loc.n_p)
           rate == PyDiv(final_dominant[2], loc.n_p)
           welfare == RDiv(loc.total_welfare, FromInt(loc.rounds * loc.n_p))
       IN  IF IsExc(percent) \/ IsExc(rate) \/ IsExc(welfare)
           THEN /\ pc' = "raised"
                /\ err' = ZeroDivisionError
                /\ UNCHANGED result
           ELSE /\ pc' = "returned"
                /\ result' = [game_id |-> game, config |-> config,
                              rounds |-> round_data,
                              summary |-> [final_coordination_rate |-> Round(rate, 3),
                                           dominant_action |-> final_dominant[1],
                                           avg_welfare |-> Round(welfare, 2),
                                           convergence_round |->
                                              CG_ConvergenceRound(round_data, loc.rounds)]]
                /\ UNCHANGED err
    /\ UNCHANGED <<game, config, r, loc, round_data, regVars>>

\* bounds of the coordination_general runs
MaxPlayers == 3
MaxActions == 3

CGConfigs ==
    {MkConfig([rounds |-> n, n_players |-> p, n_actions |-> a, strategy |-> s],
              absent) :
        n \in 0..2, p \in 0..MaxPlayers, a \in 2..MaxActions,
        s \in CG_NAMES \cup {Bogus}, absent \in {{}, {"strategy"}}}

\* a run is about to start: nothing computed yet
RunStart ==
    /\ pc = "call"
    /\ r = 0
    /\ loc = NoneRec
    /\ round_data = <<>>
    /\ err = None
    /\ result = NoneRec
    /\ RegIdle

InitCG == game = CG /\ config \in CGConfigs /\ RunStart

NextCG == CGCall \/ CGRound \/ CGReturn

SpecCG == InitCG /\ [][NextCG]_vars

----
\* public_goods

PG == "public_goods"

\* the values a player's contribution c can take before round(c, 2):
\* random.uniform and the clipped Gaussian step reach every point of
\* [0, endowment]; the model tries both ends and the middle
PG_Contribution(strategy, endowment, prev_avg_contrib) ==
    CASE strategy = "full_cooperator" -> {endowment}
      [] strategy = "free_rider" -> {FromInt(0)}
      [] OTHER -> {FromInt(0), RMul(endowment, Frac(1, 2)), endowment}

\* compute(), up to the loop
PGCall ==
    /\ pc = "call"
    /\ game = PG
    /\ loc' = [n |-> Get(config, "n_players", 5),
               endowment |-> Get(config, "endowment", FromInt(10)),
               mult |-> Get(config, "multiplier", FromInt(2)),
               rounds |-> Get(config, "rounds", 50),
               punish_cost |-> Get(config, "punishment_cost", FromInt(0)),
               strategy |-> Get(config, "strategy", "conditional_cooperator"),
               prev_avg_contrib |->
                    RMul(Get(config, "endowment", FromInt(10)), Frac(1, 2))]
    /\ pc' = "loop"
    /\ r' = 0
    /\ round_data' = <<>>
    /\ UNCHANGED <<game, config, err, result, regVars>>

\* the payoffs after the optional punishment step (lines 87-94)
PG_Punish(l, contributions, payoffs) ==
    IF ~RLess(FromInt(0), l.punish_cost) THEN payoffs
    ELSE LET avg_c == RDiv(RSum(contributions), FromInt(l.n))
             punished == {i \in 1..l.n :
                             RLess(contributions[i], RMul(avg_c, Frac(1, 2)))}
         IN  [j \in 1..l.n |->
                 RSub(RSub(payoffs[j],
                           IF j \in punished
                           THEN RMul(l.punish_cost, FromInt(l.n - 1))
                           ELSE FromInt(0)),
                      RMul(RMul(l.punish_cost, Frac(3, 10)),
                           FromInt(Cardinality(punished \ {j}))))]

\* one pass of the loop body
PGRound ==
    /\ pc = "loop"
    /\ game = PG
    /\ r < loc.rounds
    /\ \E cs \in [1..loc.n ->
                    PG_Contribution(loc.strategy, loc.endowment, loc.prev_avg_contrib)] :
          LET contributions == [i \in 1..loc.n |-> Round(cs[i], 2)]
              pool == RMul(RSum(contributions), loc.mult)
              share == RDiv(pool, FromInt(loc.n))
          IN  IF IsExc(share)
              THEN /\ pc' = "raised"
                   /\ err' = ZeroDivisionError
                   /\ UNCHANGED <<r, loc, round_data>>
              ELSE LET payoffs == [i \in 1..loc.n |->
                                      Round(RAdd(RSub(loc.endowment, contributions[i]),
                                                 share), 2)]
                       avg == RDiv(RSum(contributions), FromInt(loc.n))
                       low == {i \in 1..loc.n :
                                  RLess(contributions[i],
                                        RMul(loc.endowment, Frac(1, 10)))}
                   IN  /\ loc' = [loc EXCEPT !.prev_avg_contrib = avg]
                       /\ r' = r + 1
                       /\ round_data' = Append(round_data,
                             [round_num |-> r + 1, actions |-> contributions,
                              payoffs |-> PG_Punish(loc, contributions, payoffs),
                              state |-> [pool |-> Round(pool, 2),
                                         avg_contribution |-> Round(avg, 2),
                                         free_rider_ratio |->
                                            Round(Frac(Cardinality(low), loc.n), 2)]])
                       /\ UNCHANGED <<pc, err>>
    /\ UNCHANGED <<game, config, result, regVars>>

\* the return statement
PGReturn ==
    /\ pc = "loop"
    /\ game = PG
    /\ r >= loc.rounds
    /\ IF Len(round_data) = 0 \/ loc.n = 0
       THEN \* sum(all_payoffs) / len(all_payoffs) with no round recorded
            /\ pc' = "raised"
            /\ err' = ZeroDivisionError
            /\ UNCHANGED result
       ELSE LET all_payoffs == [i \in 1..Len(round_data) |->
                                   RDiv(RSum(round_data[i].payoffs), FromInt(loc.n))]
                all_contribs == [i \in 1..Len(round_data) |->
                                    round_data[i].state.avg_contribution]
                last == Len(round_data)
            IN  /\ pc' = "returned"
                /\ result' =
                     [game_id |-> game, config |-> config, rounds |-> round_data,
                      equilibria |->
                         <<[name |-> "Nash Equilibrium",
                            payoffs |-> [i \in 1..loc.n |-> loc.endowment]],
                           [name |-> "Social Optimum",
                            payoffs |-> [i \in 1..loc.n |->
                               IF RLess(FromInt(1), loc.mult)
                               THEN Round(RDiv(RMul(loc.endowment, loc.mult),
                                               FromInt(loc.n)), 2)
                               ELSE loc.endowment]]>>,
                      summary |->
                         [avg_payoff |->
                             Round(RDiv(RSum(all_payoffs), FromInt(last)), 2),
                          avg_contribution |->
                             Round(RDiv(RSum(all_contribs), FromInt(last)), 2),
                          final_free_rider_ratio |->
                             round_data[last].state.free_rider_ratio,
                          contribution_trend |->
                             IF RLess(all_contribs[last], all_contribs[1])
                             THEN "declining" ELSE "stable_or_rising"]]
                /\ UNCHANGED err
    /\ UNCHANGED <<game, config, r, loc, round_data, regVars>>

PG_NAMES == {"full_cooperator", "free_rider", "conditional_cooperator", "random"}

PGConfigs ==
    {MkConfig([rounds |-> n, n_players |-> p, strategy |-> s, multiplier |-> m,
               punishment_cost |-> c], absent) :
        n \in 0..2, p \in 0..MaxPlayers, s \in PG_NAMES,
        m \in {FromInt(2), FromInt(1)}, c \in {FromInt(0), FromInt(1)},
        absent \in {{}, {"strategy", "multiplier", "punishment_cost"}}}

InitPG == game = PG /\ config \in PGConfigs /\ RunStart

NextPG == PGCall \/ PGRound \/ PGReturn

SpecPG == InitPG /\ [][NextPG]_vars

----
\* tragedy_of_commons

TC == "tragedy_of_commons"

\* int(x): truncation toward zero
PyInt(x) == IF x.num >= 0 THEN x.num \div x.den ELSE -((-x.num) \div x.den)

PyMax(a, b) == IF b > a THEN b ELSE a

\* min(a, b) answering its first argument whatever the second
RMin_First(x, y) == x

\* min(a, b)
RMin(x, y) == IF RLess(y, x) THEN y ELSE x

\* h[-5:]
LastFive(h) == SubSeq(h, PyMax(1, Len(h) - 4), Len(h))

\* greedy without max(1, ...): int(cap * 0.7), zero for a small pool
TC_STRATEGIES_NoFloor(name, h, cap) == {PyInt(RMul(cap, Frac(7, 10)))}

\* STRATEGIES[name](h, cap): the set of harvests the call can return;
\* random.uniform(0.1, 0.8) * cap reaches every integer part between the ends
TC_STRATEGIES(name, h, cap) ==
    CASE name = "sustainable" -> {PyMax(1, PyInt(RMul(cap, Frac(3, 10))))}
      [] name = "greedy" -> {PyMax(1, PyInt(RMul(cap, Frac(7, 10))))}
      [] name = "moderate" -> {PyMax(1, PyInt(RMul(cap, Frac(1, 2))))}
      [] name = "adaptive" ->
            IF Len(h) > 0
            THEN LET high == Cardinality({i \in DOMAIN LastFive(h) :
                                             RLess(Frac(6, 10), LastFive(h)[i])})
                 IN  {PyMax(1, PyInt(RMul(RMul(cap, Frac(1, 2)),
                                          RSub(FromInt(1), Frac(high, 5)))))}
            ELSE {PyMax(1, PyInt(RMul(cap, Frac(4, 10))))}
      [] name = "random" ->
            {PyMax(1, k) : k \in PyInt(RMul(cap, Frac(1, 10)))
                                 .. PyInt(RMul(cap, Frac(8, 10)))}
      [] name = "tit_for_tat" ->
            {PyMax(1, PyInt(RMul(cap, IF Len(h) > 0 THEN PyLast(h)
                                                   ELSE Frac(4, 10))))}

TC_NAMES == {"sustainable", "greedy", "moderate", "adaptive", "random",
             "tit_for_tat"}

\* compute(), up to the loop; depleted_round is <<>> for None
TCCall ==
    /\ pc = "call"
    /\ game = TC
    /\ LET strat_name == Get(config, "strategy", "moderate")
       IN  loc' = [n |-> Get(config, "n_agents", 6),
                   capacity |-> Get(config, "resource_capacity", FromInt(1000)),
                   regen |-> Get(config, "regeneration_rate", Frac(2, 10)),
                   rounds |-> Get(config, "rounds", 100),
                   strat_name |-> strat_name,
                   strat_fn |-> IF strat_name \in TC_NAMES THEN strat_name
                                                           ELSE "moderate",
                   pool |-> Get(config, "resource_capacity", FromInt(1000)),
                   history |-> <<>>,
                   total_harvested |-> FromInt(0),
                   depleted_round |-> <<>>]
    /\ pc' = "loop"
    /\ r' = 0
    /\ round_data' = <<>>
    /\ UNCHANGED <<game, config, err, result, regVars>>

\* one pass of the loop body
TCRound ==
    /\ pc = "loop"
    /\ game = TC
    /\ r < loc.rounds
    /\ LET per_agent_cap == IF RLess(FromInt(0), loc.pool)
                            THEN RDiv(loc.pool, FromInt(loc.n)) ELSE FromInt(0)
       IN  IF IsExc(per_agent_cap) \/ loc.n = 0
           THEN \* pool / n, or actual / n once the pool is empty
                /\ pc' = "raised"
                /\ err' = ZeroDivisionError
                /\ UNCHANGED <<r, loc, round_data>>
           ELSE \E harvests \in [1..loc.n ->
                           TC_STRATEGIES(loc.strat_fn, loc.history, per_agent_cap)] :
                LET total_harvest == SumSeq(harvests)
                    actual == RMin(FromInt(total_harvest), loc.pool)
                    scale == IF total_harvest > 0
                             THEN RDiv(actual, FromInt(total_harvest))
                             ELSE FromInt(0)
                    left == RSub(loc.pool, actual)
                    pool == RMin(loc.capacity, RAdd(left, RMul(left, loc.regen)))
                    usage_ratio == IF RLess(FromInt(0), loc.capacity)
                                   THEN RDiv(actual, loc.capacity) ELSE FromInt(0)
                IN  /\ loc' = [loc EXCEPT
                                 !.pool = pool,
                                 !.total_harvested = RAdd(@, actual),
                                 !.depleted_round =
                                     IF RLess(pool, FromInt(1)) /\ @ = <<>>
                                     THEN <<r + 1>> ELSE @,
                                 !.history = Append(@, usage_ratio)]
                    /\ r' = r + 1
                    /\ round_data' = Append(round_data,
                          [round_num |-> r + 1,
                           actions |-> [i \in 1..loc.n |->
                                           RMul(FromInt(harvests[i]), scale)],
                           payoffs |-> <<RDiv(actual, FromInt(loc.n))>>,
                           state |-> [pool |-> Round(pool, 2),
                                      total_harvest |-> Round(actual, 2),
                                      usage_ratio |-> Round(usage_ratio, 4)]])
                    /\ UNCHANGED <<pc, err>>
    /\ UNCHANGED <<game, config, result, regVars>>

\* the return statement
TCReturn ==
    /\ pc = "loop"
    /\ game = TC
    /\ r >= loc.rounds
    /\ IF loc.n * loc.rounds = 0 \/ loc.capacity.num = 0
       THEN \* total_harvested / (n * rounds), or pool / capacity
            /\ pc' = "raised"
            /\ err' = ZeroDivisionError
            /\ UNCHANGED result
       ELSE /\ pc' = "returned"
            /\ result' =
                 [game_id |-> game, config |-> config, rounds |-> round_data,
                  equilibria |->
                     <<[name |-> "Overexploitation NE",
                        strategies |-> [i \in 1..loc.n |-> loc.strat_name]]>>,
                  summary |->
                     [final_pool |-> Round(loc.pool, 2),
                      total_harvested |-> Round(loc.total_harvested, 2),
                      depleted |-> loc.depleted_round # <<>>,
                      depleted_round |-> loc.depleted_round,
                      avg_harvest_per_agent |->
                         Round(RDiv(loc.total_harvested,
                                    FromInt(loc.n * loc.rounds)), 2),
                      sustainability_score |->
                         Round(RDiv(loc.pool, loc.capacity), 3)]]
            /\ UNCHANGED err
    /\ UNCHANGED <<game, config, r, loc, round_data, regVars>>

MaxAgents == 2

Capacity == 10

TCConfigs ==
    {MkConfig([rounds |-> n, n_agents |-> p, strategy |-> s,
               resource_capacity |-> c, regeneration_rate |-> g], absent) :
        n \in 0..MaxRounds, p \in 0..MaxAgents, s \in TC_NAMES \cup {Bogus},
        c \in {FromInt(0), FromInt(Capacity)}, g \in {Frac(1, 5), Frac(1, 2)},
        absent \in {{}, {"strategy"}}}

InitTC == game = TC /\ config \in TCConfigs /\ RunStart

NextTC == TCCall \/ TCRound \/ TCReturn

SpecTC == InitTC /\ [][NextTC]_vars

----
\* coalition_formation

CF == "coalition_formation"

\* x ** k for an integer k
RECURSIVE RPow(_, _)
RPow(x, k) ==
    IF k = 0 THEN FromInt(1)
    ELSE IF k < 0 THEN RDiv(FromInt(1), RPow(x, -k))
    ELSE RMul(x, RPow(x, k - 1))

\* every order random.shuffle can leave a list in
RECURSIVE Perms(_)
Perms(s) ==
    IF Len(s) = 0 THEN {<<>>}
    ELSE UNION {{<<s[i]>> \o p :
                    p \in Perms(SubSeq(s, 1, i - 1) \o SubSeq(s, i + 1, Len(s)))} :
                i \in 1..Len(s)}

Members(coal) == {coal[i] : i \in DOMAIN coal}

\* sorted(sizes, reverse=True)
RECURSIVE SortedReverse(_)
SortedReverse(s) ==
    IF Len(s) = 0 THEN <<>>
    ELSE LET i == CHOOSE i \in 1..Len(s) : \A j \in 1..Len(s) : s[j] <= s[i]
         IN  <<s[i]>> \o SortedReverse(SubSeq(s, 1, i - 1) \o SubSeq(s, i + 1, Len(s)))

\* sum(capabilities[m] for m in members); agents are numbered from 0
CapSum(capabilities, members) ==
    RSum([i \in 1..Len(members) |-> capabilities[members[i] + 1]])

coal_value(l, members) ==
    IF Len(members) > 1
    THEN RMul(CapSum(l.capabilities, members), RPow(l.synergy, Len(members) - 1))
    ELSE CapSum(l.capabilities, members)

\* the loop over the shuffled coalitions (lines 51-81): every pair
\* (new_coalitions, used) it can end with from the given position
RECURSIVE CF_Loop(_, _, _, _, _)
CF_Loop(l, coalitions, k, used, new_coalitions) ==
    IF k > Len(coalitions)
    THEN {[new_coalitions |-> new_coalitions, used |-> used]}
    ELSE LET coal == coalitions[k]
             stay == CF_Loop(l, coalitions, k + 1, used \cup Members(coal),
                             Append(new_coalitions, coal))
             candidates == SelectSeq(coalitions,
                              LAMBDA c : c # coal /\ Members(c) \cap used = {})
             merge ==
                IF Len(candidates) = 0 THEN stay
                ELSE UNION {
                        LET partner == candidates[j]
                            merged == coal \o partner
                        IN  IF RLess(RAdd(coal_value(l, coal), coal_value(l, partner)),
                                     coal_value(l, merged))
                            THEN CF_Loop(l, coalitions, k + 1,
                                         used \cup Members(merged),
                                         Append(new_coalitions, merged))
                            ELSE stay
                        : j \in 1..Len(candidates)}
             split ==
                UNION {CF_Loop(l, coalitions, k + 1, used \cup Members(coal),
                               new_coalitions \o <<SubSeq(p, 1, split_point),
                                                   SubSeq(p, split_point + 1, Len(p))>>)
                       : p \in Perms(coal), split_point \in 1..(Len(coal) - 1)}
         IN  IF Members(coal) \cap used # {}
             THEN CF_Loop(l, coalitions, k + 1, used, new_coalitions)
             ELSE \* random.random() lies in [0, 1)
                  (IF RLess(FromInt(0), l.stability) THEN stay ELSE {})
                  \cup (IF RLess(l.stability, FromInt(1))
                        THEN merge \cup (IF Len(coal) > 1 THEN split ELSE {})
                        ELSE {})

\* lines 84-86 without the test of line 85: every agent is added again
Unassigned_Everyone(n, used) == [i \in 1..n |-> <<i - 1>>]

\* lines 84-86
Unassigned(n, used) ==
    LET ids == [i \in 1..n |-> i - 1]
        free == SelectSeq(ids, LAMBDA i : i \notin used)
    IN  [j \in 1..Len(free) |-> <<free[j]>>]

\* round_payoffs after lines 91-98: the share of the last coalition holding m
CF_Share(l, coalitions, m) ==
    LET holding == {k \in 1..Len(coalitions) : m \in Members(coalitions[k])}
    IN  IF holding = {} THEN FromInt(0)
        ELSE LET coal == coalitions[CHOOSE k \in holding : \A j \in holding : j <= k]
                 total_cap == CapSum(l.capabilities, coal)
             IN  IF RLess(FromInt(0), total_cap)
                 THEN RDiv(RMul(coal_value(l, coal), l.capabilities[m + 1]), total_cap)
                 ELSE FromInt(0)

\* what lines 95-98 add to payoff_history[m]: one share per listing of m
CF_Earned(l, coalitions, m) ==
    RSum([k \in 1..Len(coalitions) |->
            IF RLess(FromInt(0), CapSum(l.capabilities, coalitions[k]))
            THEN RMul(RDiv(RMul(coal_value(l, coalitions[k]), l.capabilities[m + 1]),
                           CapSum(l.capabilities, coalitions[k])),
                      FromInt(Count(coalitions[k], m)))
            ELSE FromInt(0)])


\* the values random.uniform(1, 10) is sampled at
CapabilityValues == {FromInt(1), FromInt(3)}

\* compute(), up to the loop
CFCall ==
    /\ pc = "call"
    /\ game = CF
    /\ LET n == Get(config, "n_agents", 8)
       IN  \E capabilities \in [1..n -> CapabilityValues] :
              loc' = [rounds |-> Get(config, "rounds", 100),
                      n |-> n,
                      synergy |-> Get(config, "synergy_factor", Frac(3, 2)),
                      stability |-> Get(config, "stability", Frac(7, 10)),
                      capabilities |-> capabilities,
                      coalitions |-> [i \in 1..n |-> <<i - 1>>],
                      payoff_history |-> [i \in 1..n |-> FromInt(0)]]
    /\ pc' = "loop"
    /\ r' = 0
    /\ round_data' = <<>>
    /\ UNCHANGED <<game, config, err, result, regVars>>

\* one pass of the loop body
CFRound ==
    /\ pc = "loop"
    /\ game = CF
    /\ r < loc.rounds
    /\ \E shuffled \in Perms(loc.coalitions) :
       \E end \in CF_Loop(loc, shuffled, 1, {}, <<>>) :
          LET coalitions == end.new_coalitions \o Unassigned(loc.n, end.used)
              round_payoffs == [i \in 1..loc.n |-> CF_Share(loc, coalitions, i - 1)]
              sizes == [k \in 1..Len(coalitions) |-> Len(coalitions[k])]
              avg_size == IF Len(coalitions) > 0
                          THEN Frac(loc.n, Len(coalitions)) ELSE FromInt(1)
              largest == IF Len(coalitions) > 0
                         THEN SortedReverse(sizes)[1] ELSE 0
          IN  /\ loc' = [loc EXCEPT
                           !.coalitions = coalitions,
                           !.payoff_history =
                               [i \in 1..loc.n |->
                                   RAdd(loc.payoff_history[i],
                                        CF_Earned(loc, coalitions, i - 1))]]
              /\ round_data' = Append(round_data,
                    [round_num |-> r + 1, actions |-> sizes,
                     payoffs |-> [i \in 1..loc.n |-> Round(round_payoffs[i], 2)],
                     state |-> [n_coalitions |-> Len(coalitions),
                                avg_size |-> Round(avg_size, 2),
                                largest_coalition |-> largest,
                                total_value |-> Round(RSum(round_payoffs), 2),
                                coalition_sizes |-> SortedReverse(sizes)]])
    /\ r' = r + 1
    /\ UNCHANGED <<game, config, pc, err, result, regVars>>

\* the return statement
CFReturn ==
    /\ pc = "loop"
    /\ game = CF
    /\ r >= loc.rounds
    /\ LET grand == RDiv(RMul(RSum(loc.capabilities), RPow(loc.synergy, loc.n - 1)),
                         FromInt(loc.n))
           avg_payoff == RDiv(RSum(loc.payoff_history), FromInt(loc.n * loc.rounds))
           captured == RDiv(RSum(loc.payoff_history),
                            RMul(RSum(loc.capabilities), FromInt(loc.rounds)))
           sizes == [k \in 1..Len(loc.coalitions) |-> Len(loc.coalitions[k])]
       IN  IF IsExc(grand) \/ IsExc(avg_payoff) \/ IsExc(captured)
           THEN /\ pc' = "raised"
                /\ err' = ZeroDivisionError
                /\ UNCHANGED result
           ELSE /\ pc' = "returned"
                /\ result' =
                     [game_id |-> game, config |-> config, rounds |-> round_data,
                      equilibria |->
                         <<[name |-> "Grand Coalition",
                            payoffs |-> [i \in 1..(IF loc.n < 3 THEN loc.n ELSE 3) |->
                                            Round(grand, 1)]]>>,
                      summary |->
                         [final_n_coalitions |-> Len(loc.coalitions),
                          final_avg_size |->
                             IF Len(loc.coalitions) > 0
                             THEN Round(Frac(loc.n, Len(loc.coalitions)), 2)
                             ELSE FromInt(0),
                          final_largest |->
                             IF Len(loc.coalitions) > 0
                             THEN SortedReverse(sizes)[1] ELSE 0,
                          avg_payoff |-> Round(avg_payoff, 2),
                          value_captured_ratio |-> Round(captured, 3)]]
                /\ UNCHANGED err
    /\ UNCHANGED <<game, config, r, loc, round_data, regVars>>

MaxCoalitionAgents == 3

\* a second round is explored for up to three agents
CFSizes == {np \in (0..2) \X (0..MaxCoalitionAgents) : np[1] <= 1 \/ np[2] <= 3}

CFConfigs ==
    {MkConfig([rounds |-> np[1], n_agents |-> np[2], synergy_factor |-> s,
               stability |-> st], absent) :
        np \in CFSizes, s \in {Frac(3, 2), FromInt(1)},
        st \in {FromInt(0), Frac(7, 10), FromInt(1)},
        absent \in {{}, {"synergy_factor", "stability"}}}

InitCF == game = CF /\ config \in CFConfigs /\ RunStart

NextCF == CFCall \/ CFRound \/ CFReturn

SpecCF == InitCF /\ [][NextCF]_vars

----
\* The population games together

InitPopulation == InitCG \/ InitPG \/ InitTC \/ InitCF

NextPopulation == NextCG \/ NextPG \/ NextTC \/ NextCF

SpecPopulation == InitPopulation /\ [][NextPopulation]_vars

\* the participant count compute() reads from the config
Population ==
    CASE game = PG -> Get(config, "n_players", 5)
      [] game = CG -> Get(config, "n_players", 20)
      [] game = TC -> Get(config, "n_agents", 6)
      [] game = CF -> Get(config, "n_agents", 8)

\* C3: validation is eager: a run that ends by an exception has executed no
\* round; r counts the passes of the loop body that ran to their end.
C3_EagerValidation == pc = "raised" => r = 0

\* C4: with a participant count of zero and at least one round to play,
\* compute() of public_goods, coordination_general and tragedy_of_commons does
\* not raise.
C4_ZeroPopulationReturns ==
    (game \in {PG, CG, TC} /\ Population = 0 /\ config.rounds >= 1)
        => pc # "raised"

----
\* The strategy tables that read a history

InitStrategies == InitHist \/ InitCG

NextStrategies == NextHist \/ NextCG

SpecStrategies == InitStrategies /\ [][NextStrategies]_vars

\* the strategies whose function reads one of its history arguments
HistoryDependent(g) ==
    CASE g = "prisoners_dilemma" -> {"tit_for_tat", "grim_trigger", "pavlov"}
      [] g = "stag_hunt" -> {"tit_for_tat", "cautious", "pavlov"}
      [] g = "battle_of_sexes" -> {"alternate", "tit_for_tat"}
      [] g = "matching_pennies" -> {"anti_pattern", "win_stay_lose_shift"}
      [] g = "rock_paper_scissors" -> {"beat_last", "cycle", "frequency_counter"}
      [] g = CG -> {"majority_follow", "best_response"}

\* those that open with random.choice or random.randint
RandomOpeners(g) ==
    CASE g = "matching_pennies" -> {"anti_pattern"}
      [] g = "rock_paper_scissors" -> {"beat_last", "frequency_counter"}
      [] g = CG -> {"majority_follow", "best_response"}
      [] OTHER -> {}

\* the opening action of the others
Baseline(g) ==
    CASE g = "prisoners_dilemma" -> "C"
      [] g = "stag_hunt" -> "S"
      [] g = "battle_of_sexes" -> "O"
      [] g = "matching_pennies" -> "H"
      [] g = "rock_paper_scissors" -> "R"

ValidActions == IF game = CG THEN 0..(loc.n_a - 1) ELSE GameActions(game)

\* the strategy calls of the round about to run, each with the set of values
\* it can return
StrategyCalls ==
    IF game = CG
    THEN {<<loc.strat, CG_STRATEGIES(loc.strat, loc.history, loc.n_a, pid)>> :
             pid \in 0..(loc.n_p - 1)}
    ELSE {<<loc.s1, STRATEGIES(game, loc.s1, loc.h1, loc.h2)>>,
          <<loc.s2, STRATEGIES(game, loc.s2, loc.h2, loc.h1)>>}

\* the actions round 1 recorded, each with the strategy that chose it
FirstMoves ==
    IF game = CG
    THEN {<<loc.strat, loc.history[1].actions[i]>> : i \in 1..loc.n_p}
    ELSE {<<loc.s1, round_data[1].actions[1]>>, <<loc.s2, round_data[1].actions[2]>>}

AtOpening == pc = "loop" /\ r = 0 /\ loc.rounds > 0

Noiseless == game = CG \/ loc.noise = 0

\* C9 as stated: called on round 1 with empty histories, every
\* history-dependent strategy can return one value only.
C9_EmptyHistoryDeterministic ==
    AtOpening =>
        \A c \in StrategyCalls :
            c[1] \in HistoryDependent(game) => Cardinality(c[2]) = 1

\* C9, amended: called on round 1 with empty histories, a history-dependent
\* strategy raises nothing and returns an action of its game: the fixed
\* baseline, except for anti_pattern, beat_last, frequency_counter,
\* majority_follow and best_response, which draw any action at random; and
\* round 1 records such an action.
C9_EmptyHistoryHandled ==
    /\ AtOpening =>
          \A c \in StrategyCalls :
              c[1] \in HistoryDependent(game) =>
                  IF c[1] \in RandomOpeners(game)
                  THEN c[2] = ValidActions
                  ELSE c[2] = {Baseline(game)}
    /\ (pc # "call" /\ r >= 1 /\ Noiseless) =>
          \A m \in FirstMoves :
              m[1] \in HistoryDependent(game) =>
                  IF m[1] \in RandomOpeners(game)
                  THEN m[2] \in ValidActions
                  ELSE m[2] = Baseline(game)

C9_Witness ==
    /\ game = "matching_pennies"
    /\ pc = "returned"
    /\ loc.s1 = "win_stay_lose_shift"
    /\ loc.s2 = "anti_pattern"
    /\ Len(round_data) >= 1
    /\ round_data[1].actions = <<"H", "T">>

----
\* auction_mechanisms

AM == "auction_mechanisms"

ValueError == "ValueError"

\* max(range(n), key=lambda i: s[i]): the first index (from 0) of a greatest
\* element; of an empty range, ValueError
ArgMax(s) ==
    IF Len(s) = 0 THEN [exc |-> ValueError]
    ELSE [idx |-> (CHOOSE i \in 1..Len(s) :
                      /\ \A j \in 1..Len(s) : RLeq(s[j], s[i])
                      /\ \A j \in 1..(i - 1) : RLess(s[j], s[i])) - 1]

\* sorted(s, reverse=True) on quotients
RECURSIVE RSortedReverse(_)
RSortedReverse(s) ==
    IF Len(s) = 0 THEN <<>>
    ELSE LET i == CHOOSE i \in 1..Len(s) : \A j \in 1..Len(s) : RLeq(s[j], s[i])
         IN  <<s[i]>> \o RSortedReverse(SubSeq(s, 1, i - 1) \o SubSeq(s, i + 1, Len(s)))

\* lines 73-87: the bids, the winner and the price of one auction, or the
\* exception raised
AuctionOutcome(atype, n_bidders, values) ==
    IF atype \in {"vickrey", "english"}
    THEN LET w == ArgMax(values)
         IN  IF IsExc(w) THEN w
             ELSE IF Len(values) < 2 THEN [exc |-> IndexError]
             ELSE [bids |-> values, winner_idx |-> w.idx,
                   price |-> RSortedReverse(values)[2]]
    ELSE LET bids == [i \in 1..Len(values) |->
                         RDiv(RMul(values[i], FromInt(n_bidders - 1)),
                              FromInt(n_bidders))]
             w == ArgMax(bids)
         IN  IF IsExc(w) THEN w
             ELSE [bids |-> bids, winner_idx |-> w.idx, price |-> bids[w.idx + 1]]

\* the RoundData appended for a sampled auction a (lines 95-106)
AM_Record(l, a, values) ==
    LET o == AuctionOutcome(l.atype, l.n_bidders, values)
    IN  [round_num |-> a + 1,
         actions |-> [i \in 1..Len(o.bids) |-> Round(o.bids[i], 2)],
         payoffs |-> [i \in 1..l.n_bidders |->
                         IF i - 1 = o.winner_idx
                         THEN Round(RSub(values[i], o.price), 2) ELSE FromInt(0)],
         state |-> [values |-> [i \in 1..Len(values) |-> Round(values[i], 2)],
                    winner |-> o.winner_idx,
                    price |-> Round(o.price, 2),
                    revenue |-> Round(o.price, 2)]]

\* the greatest s with s * s <= n
ISqrt(n) == CHOOSE s \in 0..n : s * s <= n /\ (s + 1) * (s + 1) > n

\* round(x ** 0.5, 2) for x >= 0: the k / 100 with
\* (2k - 1)^2 <= 40000 x < (2k + 1)^2
RoundSqrt2(x) ==
    LET x4 == RMul(FromInt(40000), x)
    IN  Frac((ISqrt(x4.num \div x4.den) + 1) \div 2, 100)

\* lines 132-136
AM_Efficiency(l, rd) ==
    IF Len(rd) = 0 THEN FromInt(1)
    ELSE Round(Frac(Cardinality({i \in 1..Len(rd) :
                                    rd[i].state.winner = ArgMax(rd[i].state.values).idx}),
                    Len(rd)), 3)

\* lines 108-109 and 127-137, for a run of at least one auction
AM_Summary(l, rd) ==
    LET n == Len(l.revenues)
        avg_rev == RDiv(RSum(l.revenues), FromInt(n))
        avg_surplus == RDiv(RSum(l.winner_surpluses), FromInt(n))
        sq == [i \in 1..n |-> RMul(RSub(l.revenues[i], avg_rev),
                                   RSub(l.revenues[i], avg_rev))]
    IN  [avg_revenue |-> Round(avg_rev, 2),
         avg_winner_surplus |-> Round(avg_surplus, 2),
         revenue_std |-> RoundSqrt2(RDiv(RSum(sq), FromInt(n))),
         auction_type |-> l.atype,
         efficiency |-> AM_Efficiency(l, rd)]


MaxAuctions == 3

\* the sampler keeps min(200, n_auctions) round indices; the model keeps
\* min(SampleCap, n_auctions), so that a run of MaxAuctions is over the cap
SampleCap == 2

\* random.sample(range(n_auctions), min(SampleCap, n_auctions)) as a set
Samples(n_auctions) ==
    {s \in SUBSET (0..(n_auctions - 1)) :
        Cardinality(s) = IF SampleCap < n_auctions THEN SampleCap ELSE n_auctions}

\* the values max(0, random.gauss(v_mean, v_std)) is sampled at: the first two
\* agree when rounded to two places
ValueDraws == {Frac(1, 1000), Frac(4, 1000), Frac(20, 1000)}

\* compute(), up to the loop; draws keeps the values of every auction, which
\* the program keeps for the sampled ones only
AMCall ==
    /\ pc = "call"
    /\ game = AM
    /\ LET n_auctions == Get(config, "n_auctions", 500)
       IN  IF n_auctions < 0
           THEN \* random.sample with a negative sample size
                /\ pc' = "raised"
                /\ err' = ValueError
                /\ UNCHANGED loc
           ELSE /\ \E sample_indices \in Samples(n_auctions) :
                      loc' = [atype |-> Get(config, "auction_type", "vickrey"),
                              n_bidders |-> Get(config, "n_bidders", 5),
                              n_auctions |-> n_auctions,
                              sample_indices |-> sample_indices,
                              revenues |-> <<>>,
                              winner_surpluses |-> <<>>,
                              draws |-> <<>>]
                /\ pc' = "loop"
                /\ UNCHANGED err
    /\ r' = 0
    /\ round_data' = <<>>
    /\ UNCHANGED <<game, config, result, regVars>>

\* one pass of the loop body: auction a = r
AMAuction ==
    /\ pc = "loop"
    /\ game = AM
    /\ r < loc.n_auctions
    /\ \E values \in [1..loc.n_bidders -> ValueDraws] :
          LET o == AuctionOutcome(loc.atype, loc.n_bidders, values)
          IN  IF IsExc(o)
              THEN /\ pc' = "raised"
                   /\ err' = o.exc
                   /\ UNCHANGED <<r, loc, round_data>>
              ELSE /\ loc' = [loc EXCEPT
                                !.revenues = Append(@, o.price),
                                !.winner_surpluses =
                                    Append(@, RSub(values[o.winner_idx + 1], o.price)),
                                !.draws = Append(@, values)]
                   /\ round_data' = IF r \in loc.sample_indices
                                    THEN Append(round_data, AM_Record(loc, r, values))
                                    ELSE round_data
                   /\ r' = r + 1
                   /\ UNCHANGED <<pc, err>>
    /\ UNCHANGED <<game, config, result, regVars>>

\* lines 108-139
AMReturn ==
    /\ pc = "loop"
    /\ game = AM
    /\ r >= loc.n_auctions
    /\ IF Len(loc.revenues) = 0 \/ loc.n_bidders = 0
       THEN \* sum(revenues) / len(revenues)
            /\ pc' = "raised"
            /\ err' = ZeroDivisionError
            /\ UNCHANGED result
       ELSE /\ pc' = "returned"
            /\ result' = [game_id |-> game, config |-> config, rounds |-> round_data,
                          summary |-> AM_Summary(loc, round_data)]
            /\ UNCHANGED err
    /\ UNCHANGED <<game, config, r, loc, round_data, regVars>>

AMConfigs ==
    {MkConfig([auction_type |-> t, n_bidders |-> b, n_auctions |-> n], absent) :
        t \in {"vickrey", "english", "dutch"}, b \in 0..2, n \in -1..MaxAuctions,
        absent \in {{}, {"auction_type"}}}

InitAM == game = AM /\ config \in AMConfigs /\ RunStart

NextAM == AMCall \/ AMAuction \/ AMReturn

SpecAM == InitAM /\ [][NextAM]_vars

\* the round records the run would have kept had the sampler selected sample
AM_Records(l, sample) ==
    LET kept == SelectSeq([i \in 1..l.n_auctions |-> i - 1], LAMBDA a : a \in sample)
    IN  [j \in 1..Len(kept) |-> AM_Record(l, kept[j], l.draws[kept[j] + 1])]

\* C10: sampling does not affect the summary: a run of more than SampleCap
\* auctions returns the summary it would have returned, on the same auctions,
\* with any other selection of round indices.
C10_SummaryIndependentOfSample ==
    (game = AM /\ pc = "returned" /\ loc.n_auctions > SampleCap) =>
        \A sample \in Samples(loc.n_auctions) :
            AM_Summary(loc, AM_Records(loc, sample)) = result.summary

----
\* The modules named with the sampler

InitSampled == InitAM \/ InitHist

NextSampled == NextAM \/ NextHist

SpecSampled == InitSampled /\ [][NextSampled]_vars

\* the round/trial count the config asks for
RequestedCount ==
    IF game = AM THEN Get(config, "n_auctions", 500)
    ELSE Get(config, "rounds", ComputeDefaultRounds(game))

\* C11: the returned round sequence has min(SampleCap, N) records for a run of
\* N >= 1 rounds or auctions, with pairwise distinct round_num values in 1..N.
C11_RoundsCappedBySampler ==
    (pc = "returned" /\ RequestedCount >= 1) =>
        /\ Len(result.rounds) =
              IF SampleCap < RequestedCount THEN SampleCap ELSE RequestedCount
        /\ \A i \in 1..Len(result.rounds) :
              /\ result.rounds[i].round_num \in 1..RequestedCount
              /\ \A j \in 1..Len(result.rounds) :
                    result.rounds[i].round_num = result.rounds[j].round_num => i = j

----
\* trust_game

TG == "trust_game"

\* the values random.uniform(0.1, 0.9) and random.uniform(0.0, 0.8) are
\* sampled at
InvestorDraws == {Frac(1, 10), Frac(1, 3), Frac(9, 10)}
TrusteeDraws == {FromInt(0), Frac(1, 3), Frac(8, 10)}

RMax(x, y) == IF RLess(x, y) THEN y ELSE x

\* INVESTOR_STRATEGIES[name](h): the set of fractions the call can return
INVESTOR_STRATEGIES(name, h) ==
    CASE name = "trusting" -> {Frac(8, 10)}
      [] name = "cautious" -> {Frac(3, 10)}
      [] name = "adaptive" ->
            IF Len(h) = 0 THEN {Frac(1, 2)}
            ELSE {RMin(FromInt(1),
                       RMax(Frac(1, 10),
                            RDiv(RSum(PyTail(h, 5)), FromInt(Len(PyTail(h, 5))))))}
      [] name = "random" -> InvestorDraws
      [] name = "tit_for_tat" -> IF Len(h) > 0 THEN {PyLast(h)} ELSE {Frac(1, 2)}

\* TRUSTEE_STRATEGIES[name](sent)
TRUSTEE_STRATEGIES(name, sent) ==
    CASE name = "reciprocal" -> {RMin(FromInt(1), RMul(sent, Frac(12, 10)))}
      [] name = "selfish" -> {Frac(1, 10)}
      [] name = "fair" -> {Frac(1, 2)}
      [] name = "generous" -> {RMin(FromInt(1), RAdd(sent, Frac(2, 10)))}
      [] name = "random" -> TrusteeDraws

INVESTOR_NAMES == {"trusting", "cautious", "adaptive", "random", "tit_for_tat"}
TRUSTEE_NAMES == {"reciprocal", "selfish", "fair", "generous", "random"}

\* compute(), up to the loop; inv_fn and tru_fn are held by name
TGCall ==
    /\ pc = "call"
    /\ game = TG
    /\ LET inv == Get(config, "investor_strategy", "adaptive")
           tru == Get(config, "trustee_strategy", "reciprocal")
       IN  loc' = [rounds |-> Get(config, "rounds", 200),
                   endowment |-> Get(config, "endowment", FromInt(10)),
                   mult |-> Get(config, "multiplier", FromInt(3)),
                   inv_fn |-> IF inv \in INVESTOR_NAMES THEN inv ELSE "adaptive",
                   tru_fn |-> IF tru \in TRUSTEE_NAMES THEN tru ELSE "reciprocal",
                   return_history |-> <<>>,
                   tot_inv |-> FromInt(0),
                   tot_tru |-> FromInt(0)]
    /\ pc' = "loop"
    /\ r' = 0
    /\ round_data' = <<>>
    /\ UNCHANGED <<game, config, err, result, regVars>>

\* one pass of the loop body
TGRound ==
    /\ pc = "loop"
    /\ game = TG
    /\ r < loc.rounds
    /\ \E send_frac \in INVESTOR_STRATEGIES(loc.inv_fn, loc.return_history) :
       \E return_frac \in TRUSTEE_STRATEGIES(loc.tru_fn, send_frac) :
          LET sent == RMul(loc.endowment, send_frac)
              tripled == RMul(sent, loc.mult)
              returned == RMul(tripled, return_frac)
              inv_payoff == RAdd(RSub(loc.endowment, sent), returned)
              tru_payoff == RSub(tripled, returned)
              tot_inv == RAdd(loc.tot_inv, inv_payoff)
              tot_tru == RAdd(loc.tot_tru, tru_payoff)
              return_history == Append(loc.return_history, return_frac)
          IN  /\ loc' = [loc EXCEPT !.tot_inv = tot_inv, !.tot_tru = tot_tru,
                                    !.return_history = return_history]
              /\ round_data' = Append(round_data,
                    [round_num |-> r + 1,
                     actions |-> <<Round(send_frac, 3), Round(return_frac, 3)>>,
                     payoffs |-> <<Round(inv_payoff, 2), Round(tru_payoff, 2)>>,
                     state |-> [sent |-> Round(sent, 2),
                                tripled |-> Round(tripled, 2),
                                returned |-> Round(returned, 2),
                                avg_trust |-> Round(RDiv(RSum(return_history),
                                                         FromInt(r + 1)), 3),
                                cumulative_inv |-> Round(tot_inv, 2),
                                cumulative_tru |-> Round(tot_tru, 2)]])
    /\ r' = r + 1
    /\ UNCHANGED <<game, config, pc, err, result, regVars>>

\* lines 92-106
TGReturn ==
    /\ pc = "loop"
    /\ game = TG
    /\ r >= loc.rounds
    /\ LET avg_trust == RDiv(RSum(loc.return_history), FromInt(loc.rounds))
           efficiency == RDiv(RAdd(loc.tot_inv, loc.tot_tru),
                              RMul(RMul(FromInt(loc.rounds), loc.endowment), loc.mult))
       IN  IF IsExc(avg_trust) \/ IsExc(efficiency)
           THEN /\ pc' = "raised"
                /\ err' = ZeroDivisionError
                /\ UNCHANGED result
           ELSE /\ pc' = "returned"
                /\ result' =
                     [game_id |-> game, config |-> config, rounds |-> round_data,
                      summary |->
                         [avg_investor_payoff |->
                             Round(RDiv(loc.tot_inv, FromInt(loc.rounds)), 2),
                          avg_trustee_payoff |->
                             Round(RDiv(loc.tot_tru, FromInt(loc.rounds)), 2),
                          avg_trust_level |-> Round(avg_trust, 3),
                          total_surplus_created |->
                             Round(RDiv(RAdd(loc.tot_inv, loc.tot_tru),
                                        FromInt(loc.rounds)), 2),
                          efficiency |-> Round(efficiency, 3)]]
                /\ UNCHANGED err
    /\ UNCHANGED <<game, config, r, loc, round_data, regVars>>

TGConfigs ==
    {MkConfig([rounds |-> n, endowment |-> e, multiplier |-> m,
               investor_strategy |-> i, trustee_strategy |-> t], absent) :
        n \in 0..MaxRounds, e \in {FromInt(10), FromInt(5)},
        m \in {FromInt(3), Frac(3, 2)},
        i \in INVESTOR_NAMES \cup {Bogus}, t \in TRUSTEE_NAMES \cup {Bogus},
        absent \in {{}, {"endowment", "multiplier"},
                    {"investor_strategy", "trustee_strategy"}}}

InitTG == game = TG /\ config \in TGConfigs /\ RunStart

NextTG == TGCall \/ TGRound \/ TGReturn

SpecTG == InitTG /\ [][NextTG]_vars

----
\* The modules reporting an average payoff per participant

InitPayoffs == InitHist \/ InitTG

NextPayoffs == NextHist \/ NextTG

SpecPayoffs == InitPayoffs /\ [][NextPayoffs]_vars

\* the summary fields holding a participant's average payoff, each with the
\* participant's position in RoundData.payoffs
AvgPayoffFields ==
    CASE game = TG -> {<<"avg_investor_payoff", 1>>, <<"avg_trustee_payoff", 2>>}
      [] game = "matching_pennies" -> {<<"avg_payoff_matcher", 1>>}
      [] OTHER -> {<<"avg_payoff_p1", 1>>, <<"avg_payoff_p2", 2>>}

\* sum of participant p's payoffs over the round records rd
RoundPayoffSum(rd, p) ==
    RSum([i \in 1..Len(rd) |->
            IF game = TG THEN rd[i].payoffs[p] ELSE FromInt(rd[i].payoffs[p])])

\* the running total the engine holds for participant p
RunningTotal(p) ==
    IF game = TG THEN (IF p = 1 THEN loc.tot_inv ELSE loc.tot_tru)
    ELSE FromInt(IF p = 1 THEN loc.tot1 ELSE loc.tot2)

\* C12: a participant's average payoff in the summary is the sum of the
\* participant's payoffs in the returned rounds divided by the round count, and
\* after every round the running total is the sum of the recorded payoffs.
C12_AverageIsSumOverRounds ==
    /\ (pc = "returned" /\ loc.rounds >= 1) =>
          \A f \in AvgPayoffFields :
              result.summary[f[1]] =
                  RDiv(RoundPayoffSum(result.rounds, f[2]), FromInt(loc.rounds))
    /\ pc \in {"loop", "returned"} =>
          \A f \in AvgPayoffFields : RunningTotal(f[2]) = RoundPayoffSum(round_data, f[2])

----
\* The modules reporting rates

InitRates == InitHist \/ InitCF

NextRates == NextHist \/ NextCF

SpecRates == InitRates /\ [][NextRates]_vars

\* the rate-valued fields of summaries and round states
RateFields ==
    {"cooperation_rate", "stag_rate", "coordination_rate", "match_rate",
     "p1_win_rate", "acceptance_rate", "trust_rate", "betrayal_rate",
     "reach_end_rate", "first_proposal_acceptance", "value_captured_ratio",
     "coop_rate", "p1_rock_rate", "p1_paper_rate", "p1_scissors_rate"}

InUnitInterval(x) == RLeq(FromInt(0), x) /\ RLeq(x, FromInt(1))

\* C13: for a round count >= 1, every rate-valued field of the summary and of
\* each round's state lies between 0 and 1 inclusive.
C13_RatesInUnitInterval ==
    /\ (pc = "returned" /\ loc.rounds >= 1) =>
          \A f \in DOMAIN result.summary \cap RateFields :
              InUnitInterval(result.summary[f])
    /\ \A i \in 1..Len(round_data) :
          \A f \in DOMAIN round_data[i].state \cap RateFields :
              InUnitInterval(round_data[i].state[f])

\* ---------------------------------------------------------------------------
\* stackelberg: a leader sets a quantity, a follower answers it
\* ---------------------------------------------------------------------------
SB == "stackelberg"

\* random.uniform(-5, 5) of the adaptive leader
LeaderDraws == {FromInt(-5), FromInt(0), FromInt(5)}

\* LEADER_STRATEGIES[name](a, c, h): the values the call can return
LEADER_STRATEGIES(name, a, c, h) ==
    CASE name = "stackelberg_optimal" -> {RDiv(RSub(a, c), FromInt(2))}
      [] name = "cournot_naive" -> {RDiv(RSub(a, c), FromInt(3))}
      [] name = "aggressive" -> {RMul(RSub(a, c), Frac(6, 10))}
      [] name = "cautious" -> {RMul(RSub(a, c), Frac(3, 10))}
      [] name = "adaptive" ->
            IF Len(h) = 0 THEN {RDiv(RSub(a, c), FromInt(2))}
            ELSE {RMax(FromInt(0), RAdd(PyLast(h).q1, d)) : d \in LeaderDraws}

\* FOLLOWER_STRATEGIES[name](a, c, q1); random.uniform(0, (a - c) / 2) draws
\* an end point or the middle
FOLLOWER_STRATEGIES(name, a, c, q1) ==
    CASE name = "best_response" ->
            {RMax(FromInt(0), RDiv(RSub(RSub(a, c), q1), FromInt(2)))}
      [] name = "match_leader" -> {q1}
      [] name = "undercut" -> {RMul(q1, Frac(8, 10))}
      [] name = "random" ->
            {FromInt(0), RDiv(RSub(a, c), FromInt(4)), RDiv(RSub(a, c), FromInt(2))}

LEADER_NAMES ==
    {"stackelberg_optimal", "cournot_naive", "aggressive", "cautious", "adaptive"}

FOLLOWER_NAMES == {"best_response", "match_leader", "undercut", "random"}

\* the locals of compute() when its loop starts (lines 40-46)
SBLocals(c) ==
    LET ls == Get(c, "leader_strategy", "stackelberg_optimal")
        fs == Get(c, "follower_strategy", "best_response")
    IN  [sims |-> Get(c, "simulations", 200),
         a |-> Get(c, "demand_intercept", FromInt(100)),
         c |-> Get(c, "marginal_cost", FromInt(20)),
         ls |-> IF ls \in LEADER_NAMES THEN ls ELSE "stackelberg_optimal",
         fs |-> IF fs \in FOLLOWER_NAMES THEN fs ELSE "best_response",
         history |-> <<>>,
         tot_leader |-> FromInt(0),
         tot_follower |-> FromInt(0)]

\* the loop body (lines 48-58) for the values x1 and x2 the strategies returned:
\* the locals and the round list after it
SBBody(l, rd, sim, x1, x2) ==
    LET q1 == RMax(FromInt(0), x1)
        q2 == RMax(FromInt(0), x2)
        Q == RAdd(q1, q2)
        price == RMax(FromInt(0), RSub(l.a, Q))
        profit1 == RMul(RSub(price, l.c), q1)
        profit2 == RMul(RSub(price, l.c), q2)
    IN  [loc |-> [l EXCEPT !.tot_leader = RAdd(@, profit1),
                           !.tot_follower = RAdd(@, profit2),
                           !.history = Append(@, [q1 |-> q1, q2 |-> q2,
                                                  price |-> price])],
         round_data |-> Append(rd,
            [round_num |-> sim,
             actions |-> <<Round(q1, 1), Round(q2, 1)>>,
             payoffs |-> <<Round(profit1, 1), Round(profit2, 1)>>,
             state |-> [price |-> Round(price, 1),
                        total_quantity |-> Round(Q, 1),
                        leader_share |-> IF RLess(FromInt(0), Q)
                                         THEN Round(RDiv(q1, Q), 3)
                                         ELSE FromInt(0)]])]

\* h["q1"]/(h["q1"]+h["q2"]) if h["q1"]+h["q2"]>0, and nothing otherwise
SBShare(h) ==
    LET Q == RAdd(h.q1, h.q2)
    IN  IF RLess(FromInt(0), Q) THEN RDiv(h.q1, Q) ELSE FromInt(0)

RECURSIVE SBSum(_, _, _, _)
\* the sum over history[lo..hi] of the share (what = "share") or the price
SBSum(h, lo, hi, what) ==
    IF lo > hi THEN FromInt(0)
    ELSE IF lo = hi THEN (IF what = "share" THEN SBShare(h[lo]) ELSE h[lo].price)
    ELSE LET mid == (lo + hi) \div 2
         IN  RAdd(SBSum(h, lo, mid, what), SBSum(h, mid + 1, hi, what))

SBShares(h) == SBSum(h, 1, Len(h), "share")

SBPrices(h) == SBSum(h, 1, Len(h), "price")

\* the summary of the return statement (lines 65-67)
SBSummary(l) ==
    [avg_leader_profit |-> RDiv(l.tot_leader, FromInt(l.sims)),
     avg_follower_profit |-> RDiv(l.tot_follower, FromInt(l.sims)),
     avg_price |-> RDiv(SBPrices(l.history), FromInt(l.sims)),
     leader_quantity_share |-> RDiv(SBShares(l.history), FromInt(l.sims)),
     total_market_profit |->
        RDiv(RAdd(l.tot_leader, l.tot_follower), FromInt(l.sims))]

SBCall ==
    /\ pc = "call"
    /\ game = SB
    /\ loc' = SBLocals(config)
    /\ pc' = "loop"
    /\ r' = 0
    /\ round_data' = <<>>
    /\ UNCHANGED <<game, config, err, result, regVars>>

\* one pass of the loop body
SBRound ==
    /\ pc = "loop"
    /\ game = SB
    /\ r < loc.sims
    /\ \E x1 \in LEADER_STRATEGIES(loc.ls, loc.a, loc.c, loc.history) :
       \E x2 \in FOLLOWER_STRATEGIES(loc.fs, loc.a, loc.c, RMax(FromInt(0), x1)) :
          LET after == SBBody(loc, round_data, r + 1, x1, x2)
          IN  /\ loc' = after.loc
              /\ round_data' = after.round_data
    /\ r' = r + 1
    /\ UNCHANGED <<game, config, pc, err, result, regVars>>

\* lines 60-68
SBReturn ==
    /\ pc = "loop"
    /\ game = SB
    /\ r >= loc.sims
    /\ IF loc.sims = 0
       THEN /\ pc' = "raised"
            /\ err' = ZeroDivisionError
            /\ UNCHANGED result
       ELSE /\ pc' = "returned"
            /\ result' = [game_id |-> game, config |-> config,
                          rounds |-> round_data, summary |-> SBSummary(loc)]
            /\ UNCHANGED err
    /\ UNCHANGED <<game, config, r, loc, round_data, regVars>>

\* strategies of stackelberg that draw nothing at random
SBDrawFree == (LEADER_NAMES \ {"adaptive"}) \cup (FOLLOWER_NAMES \ {"random"})

\* the key of a config entry no module reads
UnknownKey == "unknown_key"

\* c and the entry UnknownKey
WithUnknown(c) ==
    [k \in DOMAIN c \cup {UnknownKey} |-> IF k \in DOMAIN c THEN c[k] ELSE Bogus]

\* configs tried for stackelberg: each period count in 0..MaxRounds with every
\* strategy name, a name no table holds, keys left out, an entry nothing reads;
\* the period count left out with the strategies that draw nothing
SBConfigs ==
    LET short == {MkConfig([simulations |-> n, demand_intercept |-> a,
                            marginal_cost |-> FromInt(20),
                            leader_strategy |-> l, follower_strategy |-> f], absent) :
                    n \in 0..MaxRounds, a \in {FromInt(100), FromInt(10)},
                    l \in LEADER_NAMES \cup {Bogus}, f \in FOLLOWER_NAMES \cup {Bogus},
                    absent \in {{}, {"demand_intercept", "marginal_cost"},
                                {"leader_strategy", "follower_strategy"}}}
        long == {MkConfig([demand_intercept |-> FromInt(100),
                           leader_strategy |-> l, follower_strategy |-> f], absent) :
                    l \in LEADER_NAMES \ {"adaptive"}, f \in FOLLOWER_NAMES \ {"random"},
                    absent \in {{}, {"demand_intercept"}}}
    IN  short \cup long \cup {WithUnknown(c) : c \in long}

InitSB == game = SB /\ config \in SBConfigs /\ RunStart

NextSB == SBCall \/ SBRound \/ SBReturn

SpecSB == InitSB /\ [][NextSB]_vars

\* ---------------------------------------------------------------------------
\* reputation_trust: a trustor invests or not by the trustee's reputation
\* ---------------------------------------------------------------------------
RT == "reputation_trust"

\* STRATEGIES[name](rep, h) of reputation_trust.py: the answers the call can
\* return
RT_STRATEGIES(name, rep, h) ==
    CASE name = "always_trust" -> {TRUE}
      [] name = "never_trust" -> {FALSE}
      [] name = "threshold_50" -> {RLeq(Frac(1, 2), rep)}
      [] name = "threshold_75" -> {RLeq(Frac(3, 4), rep)}
      [] name = "gradual" -> {RLeq(RAdd(Frac(3, 10), Frac(5 * Len(h), 1000)), rep)}
      [] name = "random" -> {TRUE, FALSE}

\* TRUSTEE_TYPES with a 'reformed' that reads the last entry's "trusted": it
\* betrays after a round in which it was trusted
TRUSTEE_TYPES_Tested(name, h, t) ==
    CASE name = "honest" -> {FALSE}
      [] name = "dishonest" -> {TRUE}
      [] name = "strategic" -> {RLess(t, Frac(3, 10)) /\ Len(h) > 5}
      [] name = "opportunist" -> {TRUE, FALSE}
      [] name = "reformed" -> {Len(h) > 0 /\ PyLast(h).trusted}
      [] name = "conditional" ->
            IF RLess(t, FromInt(1)) THEN {TRUE, FALSE} ELSE {FALSE}

\* TRUSTEE_TYPES[name](h, t): whether the trustee betrays
TRUSTEE_TYPES(name, h, t) ==
    CASE name = "honest" -> {FALSE}
      [] name = "dishonest" -> {TRUE}
      [] name = "strategic" -> {RLess(t, Frac(3, 10)) /\ Len(h) > 5}
      [] name = "opportunist" -> {TRUE, FALSE}
      [] name = "reformed" -> {Len(h) > 0 /\ PyLast(h).betrayed}
      [] name = "conditional" ->
            IF RLess(t, FromInt(1)) THEN {TRUE, FALSE} ELSE {FALSE}

RT_NAMES ==
    {"always_trust", "never_trust", "threshold_50", "threshold_75", "gradual", "random"}

TRUSTEE_TYPE_NAMES ==
    {"honest", "dishonest", "strategic", "opportunist", "reformed", "conditional"}

\* the locals of compute() when its loop starts (lines 44-52)
RTLocals(c) ==
    LET ts == Get(c, "trustor_strategy", "threshold_50")
        tt == Get(c, "trustee_type", "strategic")
    IN  [rounds |-> Get(c, "rounds", 200),
         invest |-> Get(c, "investment", FromInt(10)),
         mult |-> Get(c, "multiplier", FromInt(3)),
         decay |-> Get(c, "trust_decay", Frac(2, 100)),
         ts |-> IF ts \in RT_NAMES THEN ts ELSE "threshold_50",
         tt |-> IF tt \in TRUSTEE_TYPE_NAMES THEN tt ELSE "honest",
         reputation |-> Frac(1, 2),
         history |-> <<>>,
         tot_trustor |-> FromInt(0), tot_trustee |-> FromInt(0),
         invests |-> 0, betrayals |-> 0]

\* the loop body (lines 54-77) of round rr for the answer of the trustor and,
\* when it trusted, the answer of the trustee: the locals and round list after it
RTBody(l, rd, rr, trusted, answer) ==
    LET betrayed == trusted /\ answer
        whole == RMul(l.invest, l.mult)
        returned == RDiv(whole, FromInt(2))
        p_trustor == IF ~trusted THEN FromInt(0)
                     ELSE IF betrayed THEN RSub(FromInt(0), l.invest)
                     ELSE RSub(returned, l.invest)
        p_trustee == IF ~trusted THEN FromInt(0)
                     ELSE IF betrayed THEN whole
                     ELSE RSub(whole, returned)
        reputation ==
            IF ~trusted THEN RMax(FromInt(0), RSub(l.reputation, l.decay))
            ELSE IF betrayed
            THEN RMax(FromInt(0), RSub(RMul(l.reputation, Frac(7, 10)), Frac(1, 10)))
            ELSE RMin(FromInt(1), RAdd(l.reputation, Frac(5, 100)))
        invests == l.invests + (IF trusted THEN 1 ELSE 0)
        betrayals == l.betrayals + (IF betrayed THEN 1 ELSE 0)
    IN  [loc |-> [l EXCEPT !.reputation = reputation,
                           !.invests = invests, !.betrayals = betrayals,
                           !.tot_trustor = RAdd(@, p_trustor),
                           !.tot_trustee = RAdd(@, p_trustee),
                           !.history = Append(@, [trusted |-> trusted,
                                                  betrayed |-> betrayed,
                                                  reputation |-> reputation])],
         round_data |-> Append(rd,
            [round_num |-> rr,
             actions |-> <<trusted, betrayed>>,
             payoffs |-> <<p_trustor, p_trustee>>,
             state |-> [reputation |-> Round(reputation, 3),
                        trust_rate |-> PyDiv(invests, rr),
                        betrayal_rate |->
                            PyDiv(betrayals, IF invests > 1 THEN invests ELSE 1)]])]

\* the summary of the return statement (lines 80-81)
RTSummary(l) ==
    [final_reputation |-> Round(l.reputation, 3),
     trust_rate |-> PyDiv(l.invests, l.rounds),
     betrayal_rate |-> PyDiv(l.betrayals, IF l.invests > 1 THEN l.invests ELSE 1),
     avg_trustor_payoff |-> RDiv(l.tot_trustor, FromInt(l.rounds)),
     avg_trustee_payoff |-> RDiv(l.tot_trustee, FromInt(l.rounds)),
     total_investments |-> l.invests]

\* strategies of reputation_trust that draw nothing at random
RTDrawFree ==
    (RT_NAMES \ {"random"}) \cup (TRUSTEE_TYPE_NAMES \ {"opportunist", "conditional"})

\* ---------------------------------------------------------------------------
\* Missing and unread config keys
\* ---------------------------------------------------------------------------
\* the parameter defaults info() declares for stackelberg (lines 28-32)
SBInfoDefaults ==
    [simulations |-> 200, demand_intercept |-> FromInt(100),
     marginal_cost |-> FromInt(20), leader_strategy |-> "stackelberg_optimal",
     follower_strategy |-> "best_response"]

\* the parameter defaults info() declares, by module
DeclaredDefaults(g) == IF g = SB THEN SBInfoDefaults ELSE InfoDefaults(g)

\* c with every declared parameter it leaves out set to its declared default
WithDefaults(g, c) ==
    [k \in DOMAIN c \cup DOMAIN DeclaredDefaults(g) |->
        IF k \in DOMAIN c THEN c[k] ELSE DeclaredDefaults(g)[k]]

\* configs for module g with the rounds key left out and strategies that draw
\* nothing, and every config with an entry no module reads
PartialConfigs(g) ==
    LET long == {[k \in {KeyP1(g), KeyP2(g)} |-> IF k = KeyP1(g) THEN a ELSE b] :
                    a \in DrawFree(g), b \in DrawFree(g)}
        short == {c \in HistConfigs(g) : c["rounds"] \in 0..MaxRounds}
    IN  long \cup {WithUnknown(c) : c \in long \cup short}

InitDefaults ==
    \/ /\ game \in HistGames
       /\ config \in HistConfigs(game) \cup PartialConfigs(game)
       /\ RunStart
    \/ InitSB

NextDefaults == NextHist \/ NextSB

SpecDefaults == InitDefaults /\ [][NextDefaults]_vars

\* the locals compute() sets from config c, before its loop
Locals(g, c) ==
    IF g = SB THEN SBLocals(c) ELSE IF g = RT THEN RTLocals(c) ELSE HistLocals(g, c)

\* the run of module g on config c draws nothing at random
Deterministic(g, c) ==
    IF g = SB
    THEN SBLocals(c).ls \in SBDrawFree /\ SBLocals(c).fs \in SBDrawFree
    ELSE IF g = RT
    THEN RTLocals(c).ts \in RTDrawFree /\ RTLocals(c).tt \in RTDrawFree
    ELSE /\ HistLocals(g, c).s1 \in DrawFree(g)
         /\ HistLocals(g, c).s2 \in DrawFree(g)
         /\ HistLocals(g, c).noise = 0

RECURSIVE RunLoop(_, _, _, _)
\* the loop of compute() run to its end from locals l after rr rounds, for
\* strategies that draw nothing: the locals and the round list it leaves
RunLoop(g, l, rr, rd) ==
    IF g = SB
    THEN IF rr >= l.sims THEN [loc |-> l, round_data |-> rd]
         ELSE LET x1 == CHOOSE x \in LEADER_STRATEGIES(l.ls, l.a, l.c, l.history) : TRUE
                  x2 == CHOOSE x \in FOLLOWER_STRATEGIES(l.fs, l.a, l.c,
                                        RMax(FromInt(0), x1)) : TRUE
                  after == SBBody(l, rd, rr + 1, x1, x2)
              IN  RunLoop(g, after.loc, rr + 1, after.round_data)
    ELSE IF g = RT
    THEN IF rr >= l.rounds THEN [loc |-> l, round_data |-> rd]
         ELSE LET trusted == CHOOSE x \in RT_STRATEGIES(l.ts, l.reputation, l.history) : TRUE
                  answer == CHOOSE x \in TRUSTEE_TYPES(l.tt, l.history, l.reputation) : TRUE
                  after == RTBody(l, rd, rr + 1, trusted, answer)
              IN  RunLoop(g, after.loc, rr + 1, after.round_data)
    ELSE IF rr >= l.rounds THEN [loc |-> l, round_data |-> rd]
         ELSE LET a1 == CHOOSE x \in STRATEGIES(g, l.s1, l.h1, l.h2) : TRUE
                  a2 == CHOOSE x \in STRATEGIES(g, l.s2, l.h2, l.h1) : TRUE
                  l2 == HistAccumulate(g, l, a1, a2)
              IN  RunLoop(g, l2, rr + 1,
                      Append(rd, [round_num |-> rr + 1, actions |-> <<a1, a2>>,
                                  payoffs |-> PAYOFF(g, a1, a2),
                                  state |-> RoundState(g, l2, rr + 1)]))

\* what compute(c) of module g leaves, for strategies that draw nothing: whether
\* it raised, its rounds and its summary
Outcome(g, c) ==
    LET end == RunLoop(g, Locals(g, c), 0, <<>>)
        summary == IF g = SB THEN SBSummary(end.loc)
                   ELSE IF g = RT THEN RTSummary(end.loc)
                   ELSE HistSummary(g, end.loc)
        raises == IF g = SB THEN end.loc.sims = 0
                  ELSE IF g = RT THEN end.loc.rounds = 0
                  ELSE SummaryRaises(summary)
    IN  [raised |-> raises,
         rounds |-> IF raises THEN <<>> ELSE end.round_data,
         summary |-> summary]

\* the round count the run reads
RoundCount == IF game = SB THEN loc.sims ELSE loc.rounds

\* C14: a config that leaves keys out sets the same locals as the config
\* completed with the defaults info() declares, and so does the config with an
\* entry nothing reads; for strategies that draw nothing and up to TestRounds
\* rounds, the run ends as compute() of either of those configs does, with the
\* same rounds and summary.
C14_MissingKeyIsDeclaredDefault ==
    pc # "call" =>
        /\ Locals(game, config) = Locals(game, WithDefaults(game, config))
        /\ Locals(game, config) = Locals(game, WithUnknown(config))
        /\ (Ended /\ Deterministic(game, config) /\ RoundCount <= TestRounds) =>
              /\ Outcome(game, WithDefaults(game, config)).raised = (pc = "raised")
              /\ Outcome(game, WithUnknown(config)) =
                    Outcome(game, WithDefaults(game, config))
              /\ pc = "returned" =>
                    /\ result.rounds = Outcome(game, WithDefaults(game, config)).rounds
                    /\ result.summary = Outcome(game, WithDefaults(game, config)).summary

\* a prisoners_dilemma run that returned from a config without its first
\* strategy key and with an entry nothing reads: tit_for_tat, the declared
\* default, played
C14_Witness ==
    /\ pc = "returned"
    /\ game = PD
    /\ "strategy_p1" \notin DOMAIN config
    /\ UnknownKey \in DOMAIN config
    /\ Deterministic(game, config)
    /\ Len(result.rounds) = MaxRounds
    /\ result.summary.strategy_p1 = "tit_for_tat"

\* ---------------------------------------------------------------------------
\* The config field of the result
\* ---------------------------------------------------------------------------
\* the value the run used for the declared parameter k of a history game
EffectiveValue(k) ==
    CASE k = "rounds" -> loc.rounds
      [] k = "noise" -> loc.noise
      [] k = KeyP1(game) -> loc.s1
      [] k = KeyP2(game) -> loc.s2

\* C15: the config of the returned result holds, for every declared parameter,
\* the value the run used: the default for a key left out, the fallback for a
\* strategy name the table does not hold.
C15_ResultConfigIsEffective ==
    (pc = "returned" /\ game \in HistGames) =>
        \A k \in DOMAIN InfoDefaults(game) :
            /\ k \in DOMAIN result.config
            /\ result.config[k] = EffectiveValue(k)

\* ---------------------------------------------------------------------------
\* The order of the catalog
\* ---------------------------------------------------------------------------
\* the catalog the last list_games request returned
Listed == "op" \in DOMAIN call /\ call.op = "list_games"

\* along the sequence b the tiers never go down and each category is one block
GroupedByTier(b) ==
    \A i \in 1..Len(b), j \in 1..Len(b) :
        i < j =>
            /\ b[i].tier <= b[j].tier
            /\ b[i].category = b[j].category =>
                  \A k \in i..j : b[k].category = b[i].category

\* C16: the catalog list_games returns has non-decreasing tiers and keeps the
\* entries of each category together.
C16_CatalogGroupedByTier == Listed => GroupedByTier(ret.body)

\* ---------------------------------------------------------------------------
\* The registry is written once
\* ---------------------------------------------------------------------------
\* C17: whatever lookups, catalog requests and runs have been served, the
\* registry is the literal it was built from, with 22 entries under 22 keys;
\* every catalog answer is the 22 info() records in registration order, every
\* get_game_info answer for a registered key is that key's catalog entry, and
\* the id of each entry is its registry key.
C17_RegistryWrittenOnce ==
    /\ _GAMES = GAMES_LITERAL
    /\ Len(_GAMES) = 22
    /\ Cardinality(Keys(_GAMES)) = 22
    /\ Len(get_all_game_info) = 22
    /\ \A i \in 1..Len(_GAMES) :
          /\ get_game_info(_GAMES[i].key) = get_all_game_info[i]
          /\ get_all_game_info[i].id = _GAMES[i].key
    /\ Listed => ret.body = [i \in 1..22 |-> info(GAMES_LITERAL[i].instance)]
    /\ \A i \in 1..Len(GAMES_LITERAL) :
          Answered("get_game_info", GAMES_LITERAL[i].key) =>
              ret = info(GAMES_LITERAL[i].instance) /\ ret.id = call.game_id

\* a catalog answer with all 22 entries, the last one pirate_division
C17_Witness ==
    /\ Listed
    /\ Len(ret.body) = 22
    /\ ret.body[22].id = "pirate_division"
    /\ _GAMES = GAMES_LITERAL

\* ---------------------------------------------------------------------------
\* ultimatum: a proposer offers a share of the pie, a responder accepts or not
\* ---------------------------------------------------------------------------
UG == "ultimatum"

\* round(random.uniform(0.05, 0.95), 2) of the random proposer
OfferDraws == {Frac(5, 100), Frac(3, 10), Frac(95, 100)}

\* PROPOSER_STRATEGIES[name](h): the offers the call can return
PROPOSER_STRATEGIES(name, h) ==
    CASE name = "fair" -> {Frac(1, 2)}
      [] name = "greedy" -> {Frac(1, 10)}
      [] name = "generous" -> {Frac(6, 10)}
      [] name = "random" -> OfferDraws
      [] name = "adaptive" ->
            IF Len(h) = 0 THEN {Frac(1, 2)}
            ELSE {RMax(Frac(5, 100),
                       RMin(Frac(95, 100),
                            RAdd(PyLast(h).offer,
                                 IF PyLast(h).accepted THEN Frac(5, 100)
                                 ELSE Frac(-5, 100))))}

RECURSIVE UGOffers(_)
\* sum(e["offer"] for e in h)
UGOffers(h) == IF Len(h) = 0 THEN FromInt(0) ELSE RAdd(h[1].offer, UGOffers(Tail(h)))

\* RESPONDER_STRATEGIES[name](offer, h): the answers the call can return
RESPONDER_STRATEGIES(name, offer, h) ==
    CASE name = "rational" -> {TRUE}
      [] name = "fair_minded" -> {RLeq(Frac(3, 10), offer)}
      [] name = "spiteful" -> {RLeq(Frac(1, 2), offer)}
      [] name = "random" -> {TRUE, FALSE}
      [] name = "adaptive" ->
            {RLeq(IF Len(h) = 0 THEN Frac(3, 10)
                  ELSE RMax(Frac(5, 100),
                            RMul(RDiv(UGOffers(h), FromInt(Len(h))), Frac(8, 10))),
                  offer)}

PROPOSER_NAMES == {"fair", "greedy", "generous", "random", "adaptive"}

RESPONDER_NAMES == {"rational", "fair_minded", "spiteful", "random", "adaptive"}

\* lines 40-45
UGCall ==
    /\ pc = "call"
    /\ game = UG
    /\ LET p == Get(config, "proposer_strategy", "adaptive")
           q == Get(config, "responder_strategy", "fair_minded")
       IN  loc' = [rounds |-> Get(config, "rounds", 100),
                   pie |-> Get(config, "pie_size", FromInt(100)),
                   ps |-> IF p \in PROPOSER_NAMES THEN p ELSE "random",
                   rs |-> IF q \in RESPONDER_NAMES THEN q ELSE "rational",
                   history |-> <<>>,
                   tot_prop |-> FromInt(0), tot_resp |-> FromInt(0), accepts |-> 0]
    /\ pc' = "loop"
    /\ r' = 0
    /\ round_data' = <<>>
    /\ UNCHANGED <<game, config, err, result, regVars>>

\* one pass of the loop body (lines 47-59)
UGRound ==
    /\ pc = "loop"
    /\ game = UG
    /\ r < loc.rounds
    /\ \E offer_frac \in PROPOSER_STRATEGIES(loc.ps, loc.history) :
       \E accepted \in RESPONDER_STRATEGIES(loc.rs, offer_frac, loc.history) :
          LET p_prop == IF accepted
                        THEN RMul(loc.pie, RSub(FromInt(1), offer_frac))
                        ELSE FromInt(0)
              p_resp == IF accepted THEN RMul(loc.pie, offer_frac) ELSE FromInt(0)
              accepts == loc.accepts + (IF accepted THEN 1 ELSE 0)
              history == Append(loc.history,
                                [offer |-> offer_frac, accepted |-> accepted])
          IN  /\ loc' = [loc EXCEPT !.tot_prop = RAdd(@, p_prop),
                                    !.tot_resp = RAdd(@, p_resp),
                                    !.accepts = accepts,
                                    !.history = history]
              /\ round_data' = Append(round_data,
                    [round_num |-> r + 1,
                     \* actions=[offer_frac, accepted], kept by name
                     actions |-> [offer |-> offer_frac, accepted |-> accepted],
                     payoffs |-> <<p_prop, p_resp>>,
                     state |-> [offer |-> offer_frac, accepted |-> accepted,
                                acceptance_rate |-> PyDiv(accepts, r + 1),
                                avg_offer |-> RDiv(UGOffers(history), FromInt(r + 1))]])
    /\ r' = r + 1
    /\ UNCHANGED <<game, config, pc, err, result, regVars>>

\* lines 60-63
UGReturn ==
    /\ pc = "loop"
    /\ game = UG
    /\ r >= loc.rounds
    /\ IF loc.rounds = 0
       THEN /\ pc' = "raised"
            /\ err' = ZeroDivisionError
            /\ UNCHANGED result
       ELSE /\ pc' = "returned"
            /\ result' =
                 [game_id |-> game, config |-> config, rounds |-> round_data,
                  summary |->
                     [avg_offer |-> RDiv(UGOffers(loc.history), FromInt(loc.rounds)),
                      acceptance_rate |-> PyDiv(loc.accepts, loc.rounds),
                      total_proposer |-> loc.tot_prop,
                      total_responder |-> loc.tot_resp,
                      avg_payoff_proposer |-> RDiv(loc.tot_prop, FromInt(loc.rounds)),
                      avg_payoff_responder |-> RDiv(loc.tot_resp, FromInt(loc.rounds))]]
            /\ UNCHANGED err
    /\ UNCHANGED <<game, config, r, loc, round_data, regVars>>

UGConfigs ==
    {MkConfig([rounds |-> n, pie_size |-> FromInt(100),
               proposer_strategy |-> p, responder_strategy |-> q], absent) :
        n \in 0..MaxRounds,
        p \in PROPOSER_NAMES \cup {Bogus}, q \in RESPONDER_NAMES \cup {Bogus},
        absent \in {{}, {"pie_size"}, {"proposer_strategy", "responder_strategy"}}}

InitUG == game = UG /\ config \in UGConfigs /\ RunStart

NextUG == UGCall \/ UGRound \/ UGReturn

SpecUG == InitUG /\ [][NextUG]_vars

\* ---------------------------------------------------------------------------
\* Rounds in sequence
\* ---------------------------------------------------------------------------
InitSequential == InitHist \/ InitUG

NextSequential == NextHist \/ NextUG

SpecSequential == InitSequential /\ [][NextSequential]_vars

\* the actions the round records of rd hold for player p, in record order
Played(rd, p) == [i \in 1..Len(rd) |-> rd[i].actions[p]]

\* the history lists hold what the round records hold, in the same order
HistoryIsPlayed ==
    IF game = UG
    THEN loc.history = [i \in 1..Len(round_data) |-> round_data[i].actions]
    ELSE loc.h1 = Played(round_data, 1) /\ loc.h2 = Played(round_data, 2)

\* C18: after r rounds the records carry round_num 1..r in order and each
\* history list holds exactly the actions of those r records, in that order
\* (in prisoners_dilemma the actions after the noise step); the returned rounds
\* are those records.
C18_RoundsInSequence ==
    /\ pc \in {"loop", "returned"} =>
          /\ Len(round_data) = r
          /\ \A i \in 1..Len(round_data) : round_data[i].round_num = i
          /\ HistoryIsPlayed
    /\ pc = "returned" => result.rounds = round_data /\ r = Len(result.rounds)

\* a noisy prisoners_dilemma run of MaxRounds rounds in which noise flipped the
\* first move of tit_for_tat, and the flipped move is the one in the history
C18_Witness ==
    /\ game = PD
    /\ pc = "returned"
    /\ r = MaxRounds
    /\ loc.noise > 0
    /\ loc.s1 = "tit_for_tat"
    /\ loc.h1[1] = "D"
    /\ result.rounds[1].actions[1] = "D"
    /\ result.rounds[MaxRounds].round_num = MaxRounds

\* ---------------------------------------------------------------------------
\* Two runs on one instance
\* ---------------------------------------------------------------------------
\* Two calls of compute() on the instance registered for `game`, their loop
\* passes interleaved in any order. Run i has its own call frame: config[i],
\* pc[i], r[i], loc[i], round_data[i], err[i], result[i]. The instance has no
\* attributes and the module-level tables are only read.
Runs == {1, 2}

\* the frame whose locals run i reads and writes
Frame(i) == i

\* the results one pass of the loop body of module g can leave from locals l
\* and round list rd after rr passes
Step(g, l, rd, rr) ==
    IF g = RT
    THEN {RTBody(l, rd, rr + 1, trusted, answer) :
            trusted \in RT_STRATEGIES(l.ts, l.reputation, l.history),
            answer \in TRUSTEE_TYPES(l.tt, l.history, l.reputation)}
    ELSE UNION {UNION {
            {LET l2 == HistAccumulate(g, l, a1, a2)
             IN  [loc |-> l2,
                  round_data |-> Append(rd,
                     [round_num |-> rr + 1, actions |-> <<a1, a2>>,
                      payoffs |-> PAYOFF(g, a1, a2),
                      state |-> RoundState(g, l2, rr + 1)])] :
                a1 \in ApplyNoise(g, l.noise, c1), a2 \in ApplyNoise(g, l.noise, c2)} :
            c2 \in STRATEGIES(g, l.s2, l.h2, l.h1)} :
            c1 \in STRATEGIES(g, l.s1, l.h1, l.h2)}

\* the summary the return statement of module g builds from locals l
SummaryOf(g, l) == IF g = RT THEN RTSummary(l) ELSE HistSummary(g, l)

\* the return statement of module g raises from a division
ReturnRaises(g, l) ==
    IF g = RT THEN l.rounds = 0 ELSE SummaryRaises(HistSummary(g, l))

\* run i enters compute(): the prologue fills its frame
ConcCall(i) ==
    /\ pc[i] = "call"
    /\ loc' = [loc EXCEPT ![Frame(i)] = Locals(game, config[i])]
    /\ round_data' = [round_data EXCEPT ![Frame(i)] = <<>>]
    /\ r' = [r EXCEPT ![Frame(i)] = 0]
    /\ pc' = [pc EXCEPT ![i] = "loop"]
    /\ UNCHANGED <<game, config, err, result, regVars>>

\* a pass of run i that appends its record to one round list kept for all runs
ConcRound_SharedRounds(i) ==
    /\ pc[i] = "loop"
    /\ r[Frame(i)] < loc[Frame(i)].rounds
    /\ \E after \in Step(game, loc[Frame(i)], round_data[Frame(i)], r[Frame(i)]) :
          /\ loc' = [loc EXCEPT ![Frame(i)] = after.loc]
          /\ round_data' = [j \in Runs |-> Append(round_data[j], PyLast(after.round_data))]
    /\ r' = [r EXCEPT ![Frame(i)] = @ + 1]
    /\ UNCHANGED <<game, config, pc, err, result, regVars>>

\* run i makes one pass of its loop
ConcRound(i) ==
    /\ pc[i] = "loop"
    /\ r[Frame(i)] < loc[Frame(i)].rounds
    /\ \E after \in Step(game, loc[Frame(i)], round_data[Frame(i)], r[Frame(i)]) :
          /\ loc' = [loc EXCEPT ![Frame(i)] = after.loc]
          /\ round_data' = [round_data EXCEPT ![Frame(i)] = after.round_data]
    /\ r' = [r EXCEPT ![Frame(i)] = @ + 1]
    /\ UNCHANGED <<game, config, pc, err, result, regVars>>

\* run i leaves its loop and returns or raises
ConcReturn(i) ==
    /\ pc[i] = "loop"
    /\ r[Frame(i)] >= loc[Frame(i)].rounds
    /\ IF ReturnRaises(game, loc[Frame(i)])
       THEN /\ pc' = [pc EXCEPT ![i] = "raised"]
            /\ err' = [err EXCEPT ![i] = ZeroDivisionError]
            /\ UNCHANGED result
       ELSE /\ pc' = [pc EXCEPT ![i] = "returned"]
            /\ result' = [result EXCEPT ![i] =
                            [game_id |-> game, config |-> config[i],
                             rounds |-> round_data[Frame(i)],
                             summary |-> SummaryOf(game, loc[Frame(i)])]]
            /\ UNCHANGED err
    /\ UNCHANGED <<game, config, r, loc, round_data, regVars>>

\* configs of the interleaved runs: strategies that draw nothing, no noise
ConcConfigs(g) ==
    IF g = RT
    THEN {[rounds |-> n, trustor_strategy |-> a, trustee_type |-> b] :
            n \in {0, MaxRounds},
            a \in {"threshold_50", "gradual", "never_trust"},
            b \in {"honest", "dishonest", "reformed"}}
    ELSE {c \in HistConfigs(g) :
            /\ DOMAIN c = {"rounds", "noise", KeyP1(g), KeyP2(g)}
            /\ c["rounds"] \in {0, MaxRounds}
            /\ c["noise"] = 0
            /\ c[KeyP1(g)] \in DrawFree(g)
            /\ c[KeyP2(g)] \in DrawFree(g)}

InitConcurrent ==
    /\ game \in HistGames \cup {RT}
    /\ config \in [Runs -> ConcConfigs(game)]
    /\ pc = [i \in Runs |-> "call"]
    /\ r = [i \in Runs |-> 0]
    /\ loc = [i \in Runs |-> NoneRec]
    /\ round_data = [i \in Runs |-> <<>>]
    /\ err = [i \in Runs |-> None]
    /\ result = [i \in Runs |-> NoneRec]
    /\ RegIdle

NextConcurrent == \E i \in Runs : ConcCall(i) \/ ConcRound(i) \/ ConcReturn(i)

SpecConcurrent == InitConcurrent /\ [][NextConcurrent]_vars

\* compute(c) of module g alone, stopped after n passes of its loop
AloneAfter(g, c, n) == RunLoop(g, [Locals(g, c) EXCEPT !.rounds = n], 0, <<>>)

\* C19: however the passes of two runs on one instance interleave, a run in its
\* loop after n passes has the locals and the round list the same run has alone
\* after n passes, and a run that has ended ended as compute() of its own config
\* does alone: it raised or not, with the same rounds and summary.
C19_RunsIndependent ==
    \A i \in Runs :
        /\ pc[i] = "loop" =>
              /\ r[i] <= loc[i].rounds
              /\ [loc[i] EXCEPT !.rounds = r[i]] = AloneAfter(game, config[i], r[i]).loc
              /\ round_data[i] = AloneAfter(game, config[i], r[i]).round_data
        /\ pc[i] \in {"returned", "raised"} =>
              Outcome(game, config[i]).raised = (pc[i] = "raised")
        /\ pc[i] = "returned" =>
              /\ result[i].rounds = Outcome(game, config[i]).rounds
              /\ result[i].summary = Outcome(game, config[i]).summary

\* two runs of prisoners_dilemma with different strategies both returned, each
\* with its own MaxRounds rounds, and their histories differ
C19_Witness ==
    /\ game = PD
    /\ pc = [i \in Runs |-> "returned"]
    /\ config[1] # config[2]
    /\ Len(result[1].rounds) = MaxRounds
    /\ Len(result[2].rounds) = MaxRounds
    /\ loc[1].h1 # loc[2].h1
    /\ result[1].summary # result[2].summary

\* ---------------------------------------------------------------------------
\* Strategies keep nothing between calls
\* ---------------------------------------------------------------------------
\* both runs were given the same config
SameConfig == config[1] = config[2]

\* C20: two runs of one game on the same config, with strategies that draw
\* nothing and no noise: after equally many passes they hold the same histories,
\* aggregates and round list, the pass a run makes next has one possible
\* result, fixed by the histories it passes to the strategies, and when both
\* have ended they ended alike, with identical rounds and summaries.
C20_SameConfigSameRun ==
    SameConfig =>
        /\ (pc[1] = "loop" /\ pc[2] = "loop" /\ r[1] = r[2]) =>
              loc[1] = loc[2] /\ round_data[1] = round_data[2]
        /\ \A i \in Runs :
              (pc[i] = "loop" /\ r[i] < loc[i].rounds) =>
                  Cardinality(Step(game, loc[i], round_data[i], r[i])) = 1
        /\ (pc[1] \in {"returned", "raised"} /\ pc[2] \in {"returned", "raised"}) =>
              /\ pc[1] = pc[2]
              /\ result[1] = result[2]

\* two prisoners_dilemma runs of grim_trigger against pavlov on one config,
\* both returned after MaxRounds rounds with the same rounds and summary
C20_Witness ==
    /\ game = PD
    /\ SameConfig
    /\ config[1]["strategy_p1"] = "grim_trigger"
    /\ config[1]["strategy_p2"] = "pavlov"
    /\ pc = [i \in Runs |-> "returned"]
    /\ Len(result[1].rounds) = MaxRounds
    /\ result[1].rounds = result[2].rounds
    /\ result[1].summary = result[2].summary

\* ---------------------------------------------------------------------------
\* A run that raises
\* ---------------------------------------------------------------------------
\* the handler of POST /api/simulate answers the run it was waiting for
Responds ==
    /\ call # NoneRec
    /\ call.op = "run_simulation"
    /\ ret = NoneRec
    /\ pc \in {"returned", "raised"}
    /\ pc' = "idle"

\* while a run that raised waits for its answer there is no result, and an
\* answer of /simulate with a body has status 200
NoResultAfterRaise ==
    /\ pc = "raised" => result = NoneRec /\ err # None
    /\ \A id \in RequestIds :
          (Answered("run_simulation", id) /\ "body" \in DOMAIN ret) =>
              ret.status = 200 /\ ret.body.game_id = id

\* C21: a run that raised has no result, and the handler answers it with status
\* 500 and the exception as detail, without a body; a run that returned is
\* answered with its result.
C21_FaultAbortsRun ==
    /\ []NoResultAfterRaise
    /\ [][Responds =>
            IF pc = "raised"
            THEN ret' = [status |-> 500, detail |-> err]
            ELSE ret' = [status |-> 200, body |-> result]]_vars

\* /simulate answered a prisoners_dilemma run that raised ZeroDivisionError
C21_Witness ==
    /\ Answered("run_simulation", PD)
    /\ pc = "idle"
    /\ ret = [status |-> 500, detail |-> ZeroDivisionError]

\* ---------------------------------------------------------------------------
\* pirate_division: pirates propose divisions in order of seniority
\* ---------------------------------------------------------------------------
PV == "pirate_division"

\* the positions range(n - 1, 0, -2) at which the loop of _backward_induction
\* finds bought < votes_needed
Bought(n) ==
    {i \in 1..(n - 1) : (n - 1 - i) % 2 = 0 /\ (n - 1 - i) \div 2 < n \div 2}

\* _backward_induction(n, treasure); division[0] of an empty list raises
_backward_induction(n, treasure) ==
    IF n = 1 THEN <<treasure>>
    ELSE IF n = 2 THEN <<treasure, 0>>
    ELSE IF n <= 0 THEN [exc |-> IndexError]
    ELSE [j \in 1..n |-> IF j = 1 THEN treasure - Cardinality(Bought(n))
                         ELSE IF (j - 1) \in Bought(n) THEN 1 ELSE 0]

\* the divisions the proposer of len pirates can offer (lines 61-70): one coin
\* to each position of a set of at most len // 2 positions, the rest to itself
Proposals(len, treasure) ==
    {[j \in 1..len |-> IF j = 1 THEN treasure - Cardinality(B)
                       ELSE IF (j - 1) \in B THEN 1 ELSE 0] :
        B \in {X \in SUBSET (1..(len - 1)) : Cardinality(X) <= len \div 2}}

\* the answers voter i can give to division (lines 75-81): the rational one
\* when random.random() < rationality can hold, the emotional one when it can
\* fail
VoteAnswers(division, i, treasure, rationality) ==
    (IF RLess(FromInt(0), rationality) THEN {division[i + 1] > 0} ELSE {})
    \cup (IF RLess(rationality, FromInt(1))
          THEN {10 * Len(division) * division[i + 1] >= 3 * treasure}
          ELSE {})

\* the values votes_for can have after the voting loop
VotesFor(division, treasure, rationality) ==
    LET voters == 1..(Len(division) - 1)
        sure == {i \in voters : VoteAnswers(division, i, treasure, rationality) = {TRUE}}
        may == {i \in voters : TRUE \in VoteAnswers(division, i, treasure, rationality)}
    IN  (1 + Cardinality(sure))..(1 + Cardinality(may))

\* lines 39-50; for n <= 0 the call of _backward_induction raises
PVCall ==
    /\ pc = "call"
    /\ game = PV
    /\ LET n == Get(config, "n_pirates", 5)
           treasure == Get(config, "treasure", 100)
           spne == _backward_induction(n, treasure)
       IN  IF n <= 0
           THEN /\ pc' = "raised"
                /\ err' = IndexError
                /\ UNCHANGED loc
           ELSE /\ pc' = "loop"
                /\ loc' = [n |-> n, treasure |-> treasure,
                           sims |-> Get(config, "simulations", 500),
                           rationality |-> Get(config, "rationality", Frac(8, 10)),
                           spne |-> spne,
                           acceptance_count |-> 0, proposer_avg |-> 0,
                           plank_count |-> 0,
                           current_pirates |-> <<>>, proposal |-> <<>>,
                           accepted |-> FALSE, proposer_idx |-> 0]
                /\ UNCHANGED err
    /\ r' = 0
    /\ round_data' = <<>>
    /\ UNCHANGED <<game, config, result, regVars>>

\* the head of one simulation (lines 52-56); proposal = None is the empty list
PVStart ==
    /\ pc = "loop"
    /\ game = PV
    /\ r < loc.sims
    /\ loc' = [loc EXCEPT !.current_pirates = [j \in 1..loc.n |-> j - 1],
                          !.proposal = <<>>,
                          !.accepted = FALSE,
                          !.proposer_idx = 0]
    /\ pc' = "while"
    /\ UNCHANGED <<game, config, r, round_data, err, result, regVars>>

\* one pass of the while loop (lines 58-91): a proposal and the vote on it
PVPropose ==
    /\ pc = "while"
    /\ game = PV
    /\ ~loc.accepted /\ Len(loc.current_pirates) > 1
    /\ \E division \in Proposals(Len(loc.current_pirates), loc.treasure) :
       \E votes_for \in VotesFor(division, loc.treasure, loc.rationality) :
          IF 2 * votes_for > Len(loc.current_pirates)
          THEN loc' = [loc EXCEPT !.accepted = TRUE,
                                  !.proposal = division,
                                  !.proposer_avg = @ + division[1],
                                  !.acceptance_count = @ + 1]
          ELSE loc' = [loc EXCEPT !.plank_count = @ + 1,
                                  !.current_pirates = Tail(@),
                                  !.proposer_idx = @ + 1]
    /\ UNCHANGED <<game, config, pc, r, round_data, err, result, regVars>>

\* the end of one simulation (lines 93-106)
PVRecord ==
    /\ pc = "while"
    /\ game = PV
    /\ loc.accepted \/ Len(loc.current_pirates) <= 1
    /\ LET last == ~loc.accepted /\ Len(loc.current_pirates) = 1
           proposal == IF last THEN <<loc.treasure>> ELSE loc.proposal
           acceptance_count == loc.acceptance_count + (IF last THEN 1 ELSE 0)
       IN  /\ loc' = [loc EXCEPT !.proposal = proposal,
                                 !.proposer_avg = @ + (IF last THEN loc.treasure ELSE 0),
                                 !.acceptance_count = acceptance_count]
           /\ round_data' = Append(round_data,
                 [round_num |-> r + 1,
                  actions |-> IF Len(proposal) > 0 THEN proposal ELSE <<loc.treasure>>,
                  payoffs |-> <<IF Len(proposal) > 0 THEN proposal[1] ELSE loc.treasure>>,
                  state |-> [proposer |-> loc.proposer_idx,
                             n_remaining |-> Len(loc.current_pirates),
                             accepted_first |-> loc.proposer_idx = 0,
                             acceptance_rate |->
                                Round(Frac(acceptance_count, r + 1), 3)]])
    /\ r' = r + 1
    /\ pc' = "loop"
    /\ UNCHANGED <<game, config, err, result, regVars>>

\* lines 108-120
PVReturn ==
    /\ pc = "loop"
    /\ game = PV
    /\ r >= loc.sims
    /\ IF loc.sims = 0 \/ loc.treasure = 0
       THEN /\ pc' = "raised"
            /\ err' = ZeroDivisionError
            /\ UNCHANGED result
       ELSE /\ pc' = "returned"
            /\ result' =
                 [game_id |-> game, config |-> config, rounds |-> round_data,
                  summary |->
                     [spne_division |-> loc.spne,
                      avg_proposer_share |-> Round(Frac(loc.proposer_avg, loc.sims), 2),
                      first_proposal_acceptance |->
                         Round(Frac(loc.acceptance_count, loc.sims), 3),
                      avg_planks |-> Round(Frac(loc.plank_count, loc.sims), 2),
                      proposer_share_ratio |->
                         Round(Frac(loc.proposer_avg, loc.sims * loc.treasure), 3)]]
            /\ UNCHANGED err
    /\ UNCHANGED <<game, config, r, loc, round_data, regVars>>

\* the largest n_pirates info() declares
DeclaredMaxPirates == 10

\* the largest crew whose simulations are run with every vote
MaxPirates == 4

\* the most simulations of one run
MaxSims == 2

PVConfigs ==
    {MkConfig([n_pirates |-> n, treasure |-> t, simulations |-> s, rationality |-> q],
              absent) :
        n \in 0..MaxPirates, t \in {100, 3}, s \in 0..MaxSims,
        q \in {FromInt(0), Frac(8, 10), FromInt(1)},
        absent \in {{}, {"n_pirates", "treasure", "rationality"}}}
    \cup {[n_pirates |-> n, treasure |-> 100, simulations |-> 1,
           rationality |-> FromInt(1)] : n \in (MaxPirates + 1)..DeclaredMaxPirates}

InitPV == game = PV /\ config \in PVConfigs /\ RunStart

NextPV == PVCall \/ PVStart \/ PVPropose \/ PVRecord \/ PVReturn

SpecPV == InitPV /\ [][NextPV]_vars

RECURSIVE SubgamePerfect(_, _)
\* the division in which the proposer of n pirates gives one coin to each
\* pirate that gets nothing once the proposer is gone, nothing to the others
\* and the rest to itself
SubgamePerfect(n, treasure) ==
    IF n = 1 THEN <<treasure>>
    ELSE LET next == SubgamePerfect(n - 1, treasure)
             coins == [j \in 1..n |-> IF j > 1 /\ next[j - 1] = 0 THEN 1 ELSE 0]
         IN  [j \in 1..n |-> IF j = 1 THEN treasure - SumSeq(coins) ELSE coins[j]]

\* the prologue of pirate_division has run and did not raise
Induced == game = PV /\ pc \in {"loop", "while", "returned"}

\* C22: for 3 to 10 pirates the division _backward_induction returns sums to
\* the treasure and gives one coin to exactly the pirates that get nothing in
\* the division for one pirate fewer; for 5 pirates and 100 coins it is
\* 98, 0, 1, 0, 1.
C22_BackwardInductionIsSPNE ==
    (Induced /\ loc.n \in 3..DeclaredMaxPirates) =>
        /\ SumSeq(loc.spne) = loc.treasure
        /\ \A j \in 2..loc.n :
              loc.spne[j] =
                 IF SubgamePerfect(loc.n - 1, loc.treasure)[j - 1] = 0 THEN 1 ELSE 0
        /\ (loc.n = 5 /\ loc.treasure = 100) => loc.spne = <<98, 0, 1, 0, 1>>

\* the number of records of rounds whose state says accepted_first
AcceptedFirst(rounds) ==
    Cardinality({i \in 1..Len(rounds) : rounds[i].state.accepted_first})

\* C26: first_proposal_acceptance of the summary is the fraction, rounded to 3
\* places, of the returned rounds whose state has accepted_first true.
C26_FirstProposalAcceptance ==
    (game = PV /\ pc = "returned") =>
        result.summary.first_proposal_acceptance =
            Round(Frac(AcceptedFirst(result.rounds), Len(result.rounds)), 3)

\* ---------------------------------------------------------------------------
\* centipede: two players in turn take the pot or pass it on
\* ---------------------------------------------------------------------------
CT == "centipede"

\* STRATEGIES[name](stage, max_s) of centipede.py: the answers the call can give
CT_STRATEGIES(name, stage, max_s) ==
    CASE name = "always_take" -> {TRUE}
      [] name = "always_pass" -> {FALSE}
      [] name = "backward_induction" -> {stage >= max_s - 1}
      [] name = "random" -> {TRUE, FALSE}
      [] name = "pass_until_half" -> {stage >= max_s \div 2}
      [] name = "pass_until_80pct" -> {stage >= (8 * max_s) \div 10}
      [] name = "generous" -> {stage >= max_s - 2}

CT_NAMES == {"always_take", "always_pass", "backward_induction", "random",
             "pass_until_half", "pass_until_80pct", "generous"}

\* the answers `take` can have at a stage: the player of the stage decides
Take(l, stage) ==
    CT_STRATEGIES(IF stage % 2 = 0 THEN l.s1 ELSE l.s2, stage, l.max_stages)

\* the values stop_stage can have after the inner loop (lines 45-52): the first
\* stage with a take, or max_stages when every stage passed
StopStages(l) ==
    {k \in 0..(l.max_stages - 1) :
        TRUE \in Take(l, k) /\ \A j \in 0..(k - 1) : FALSE \in Take(l, j)}
    \cup (IF \A j \in 0..(l.max_stages - 1) : FALSE \in Take(l, j)
          THEN {l.max_stages} ELSE {})

\* sum(growth**s for s in stop_stages)
RECURSIVE CTPots(_, _)
CTPots(growth, stops) ==
    IF Len(stops) = 0 THEN FromInt(0)
    ELSE RAdd(RPow(growth, stops[1]), CTPots(growth, Tail(stops)))

\* lines 36-42
CTCall ==
    /\ pc = "call"
    /\ game = CT
    /\ LET n1 == Get(config, "strategy_p1", "pass_until_80pct")
           n2 == Get(config, "strategy_p2", "pass_until_half")
       IN  loc' = [max_stages |-> Get(config, "max_stages", 10),
                   sims |-> Get(config, "simulations", 200),
                   growth |-> Get(config, "growth_rate", FromInt(2)),
                   s1 |-> IF n1 \in CT_NAMES THEN n1 ELSE "random",
                   s2 |-> IF n2 \in CT_NAMES THEN n2 ELSE "random",
                   stop_stages |-> <<>>,
                   tot1 |-> FromInt(0), tot2 |-> FromInt(0)]
    /\ pc' = "loop"
    /\ r' = 0
    /\ round_data' = <<>>
    /\ UNCHANGED <<game, config, err, result, regVars>>

\* one repetition (lines 44-62)
CTRound ==
    /\ pc = "loop"
    /\ game = CT
    /\ r < loc.sims
    /\ \E stop_stage \in StopStages(loc) :
          LET taker == stop_stage % 2
              final_pot == RPow(loc.growth, stop_stage)
              p_taker == RMul(final_pot, Frac(6, 10))
              p_other == RMul(final_pot, Frac(4, 10))
              p1 == IF taker = 0 THEN p_taker ELSE p_other
              p2 == IF taker = 0 THEN p_other ELSE p_taker
              stop_stages == Append(loc.stop_stages, stop_stage)
          IN  /\ loc' = [loc EXCEPT !.tot1 = RAdd(@, p1), !.tot2 = RAdd(@, p2),
                                    !.stop_stages = stop_stages]
              /\ round_data' = Append(round_data,
                    [round_num |-> r + 1,
                     actions |-> <<stop_stage, taker>>,
                     payoffs |-> <<p1, p2>>,
                     state |-> [stop_stage |-> stop_stage,
                                pot_at_stop |-> final_pot,
                                avg_stop |-> PyDiv(SumSeq(stop_stages), r + 1)]])
    /\ r' = r + 1
    /\ UNCHANGED <<game, config, pc, err, result, regVars>>

\* lines 63-66
CTReturn ==
    /\ pc = "loop"
    /\ game = CT
    /\ r >= loc.sims
    /\ IF loc.sims = 0
       THEN /\ pc' = "raised"
            /\ err' = ZeroDivisionError
            /\ UNCHANGED result
       ELSE /\ pc' = "returned"
            /\ result' =
                 [game_id |-> game, config |-> config, rounds |-> round_data,
                  summary |->
                     [avg_stop_stage |-> PyDiv(SumSeq(loc.stop_stages), loc.sims),
                      max_possible_stage |-> loc.max_stages,
                      avg_payoff_p1 |-> RDiv(loc.tot1, FromInt(loc.sims)),
                      avg_payoff_p2 |-> RDiv(loc.tot2, FromInt(loc.sims)),
                      avg_pot_at_stop |->
                         RDiv(CTPots(loc.growth, loc.stop_stages), FromInt(loc.sims)),
                      reach_end_rate |->
                         PyDiv(Cardinality({i \in 1..Len(loc.stop_stages) :
                                    loc.stop_stages[i] >= loc.max_stages - 1}),
                               loc.sims)]]
            /\ UNCHANGED err
    /\ UNCHANGED <<game, config, r, loc, round_data, regVars>>

\* the most stages of a centipede tried
MaxStages == 4

CTConfigs ==
    {MkConfig([max_stages |-> m, simulations |-> s, growth_rate |-> g,
               strategy_p1 |-> a, strategy_p2 |-> b], absent) :
        m \in 0..MaxStages, s \in 0..MaxSims, g \in {FromInt(2), Frac(3, 2)},
        a \in CT_NAMES \cup {Bogus}, b \in CT_NAMES \cup {Bogus},
        absent \in {{}, {"growth_rate"}, {"strategy_p1", "strategy_p2"}}}

InitCT == game = CT /\ config \in CTConfigs /\ RunStart

NextCT == CTCall \/ CTRound \/ CTReturn

SpecCT == InitCT /\ [][NextCT]_vars

\* both players of the run play backward_induction
BothInduce ==
    /\ game = CT
    /\ pc # "call"
    /\ loc.s1 = "backward_induction"
    /\ loc.s2 = "backward_induction"

\* C23: when both players play backward_induction and max_stages >= 2, every
\* repetition stops with a take at stage 0.
C23_InductionTakesAtOnce ==
    (BothInduce /\ loc.max_stages >= 2) =>
        \A i \in 1..Len(round_data) : round_data[i].state.stop_stage = 0


----
\* public_goods: the equilibria against the rounds played

\* the equilibrium of the result with this name
EquilibriumNamed(name) ==
    CHOOSE e \in {result.equilibria[i] : i \in 1..Len(result.equilibria)} :
        e.name = name

\* every recorded round pays every player what the named equilibrium states
RoundsPay(name) ==
    \A i \in 1..Len(result.rounds) : \A p \in 1..loc.n :
        result.rounds[i].payoffs[p] = EquilibriumNamed(name).payoffs[p]

\* a returned run of public_goods without punishment, with n_players >= 1 and
\* multiplier > 1
PlainReturned ==
    /\ game = PG
    /\ pc = "returned"
    /\ loc.n >= 1
    /\ RLess(FromInt(1), loc.mult)
    /\ ~RLess(FromInt(0), loc.punish_cost)

\* C24: without punishment, with n_players >= 1 and multiplier > 1, the payoffs
\* of 'Nash Equilibrium' equal every player's round payoff when all players are
\* free_rider, and those of 'Social Optimum' equal every player's round payoff
\* when all players are full_cooperator.
C24_EquilibriaMatchRounds ==
    PlainReturned =>
        /\ loc.strategy = "free_rider" => RoundsPay("Nash Equilibrium")
        /\ loc.strategy = "full_cooperator" => RoundsPay("Social Optimum")


----
\* voting_game

VG == "voting_game"

\* the elements of a list
Range(s) == {s[i] : i \in 1..Len(s)}

\* chr(65 + i) for the candidates the declared range allows
Letters == <<"A", "B", "C", "D", "E", "F", "G", "H">>

\* the orders random.shuffle can leave a copy of cand_names in
Shuffles(names) ==
    IF Len(names) = 0 THEN {<<>>}
    ELSE {[i \in 1..Len(names) |-> names[p[i]]] : p \in Permutations(1..Len(names))}

\* pref.index(c), counted from 1
IndexOf(pref, c) == CHOOSE i \in 1..Len(pref) : pref[i] = c

\* max(scores, key=scores.get) over a dict keyed in the order of names: the
\* first name of a greatest score
MaxKey(names, scores) ==
    names[CHOOSE i \in 1..Len(names) :
            /\ \A j \in 1..Len(names) : scores[names[j]] <= scores[names[i]]
            /\ \A j \in 1..(i - 1) : scores[names[j]] < scores[names[i]]]

\* the number of ballots on which candidate c satisfies Counts(pref, c)
Ballots(preferences, Counts(_, _), c) ==
    Cardinality({v \in 1..Len(preferences) : Counts(preferences[v], c)})

IsFirst(pref, c) == pref[1] = c

\* approve_count (line 77)
ApproveCount(n_cands) == PyMax(1, n_cands \div 2)

\* the scores of one election under the three systems
PluralityScores(names, preferences) ==
    [c \in Range(names) |-> Ballots(preferences, IsFirst, c)]

BordaScores(names, preferences) ==
    [c \in Range(names) |->
        SumSeq([v \in 1..Len(preferences) |->
                   Len(names) - 1 - (IndexOf(preferences[v], c) - 1)])]

ApprovalScores(names, preferences) ==
    LET approve_count == ApproveCount(Len(names))
        Approved(pref, c) == IndexOf(pref, c) <= approve_count
    IN  [c \in Range(names) |-> Ballots(preferences, Approved, c)]

\* the candidates that beat every other one on more than half of the ballots,
\* in the order of names
CondorcetWinners(names, preferences) ==
    LET Beats(c, d) ==
            2 * Cardinality({v \in 1..Len(preferences) :
                    IndexOf(preferences[v], c) < IndexOf(preferences[v], d)})
                > Len(preferences)
    IN  SelectSeq(names, LAMBDA c : \A d \in Range(names) \ {c} : Beats(c, d))

\* compute(), up to the loop
VGCall ==
    /\ pc = "call"
    /\ game = VG
    /\ LET n_cands == Get(config, "n_candidates", 4)
           cand_names == SubSeq(Letters, 1, n_cands)
           zero == [c \in Range(cand_names) |-> 0]
       IN  loc' = [n_voters |-> Get(config, "n_voters", 100),
                   n_cands |-> n_cands,
                   sims |-> Get(config, "simulations", 200),
                   strategic_frac |-> Get(config, "strategic_fraction", Frac(2, 10)),
                   cand_names |-> cand_names,
                   plurality_wins |-> zero, borda_wins |-> zero,
                   approval_wins |-> zero,
                   agreements |-> 0, condorcet_exists_count |-> 0]
    /\ pc' = "loop"
    /\ r' = 0
    /\ round_data' = <<>>
    /\ UNCHANGED <<game, config, err, result, regVars>>

\* one election
VGRound ==
    /\ pc = "loop"
    /\ game = VG
    /\ r < loc.sims
    /\ \E preferences \in [1..loc.n_voters -> Shuffles(loc.cand_names)] :
          IF loc.n_cands = 0
          THEN \* pref[0] of an empty ranking, or max() of an empty dict
               /\ pc' = "raised"
               /\ err' = IF loc.n_voters > 0 THEN IndexError ELSE ValueError
               /\ UNCHANGED <<r, loc, round_data>>
          ELSE LET names == loc.cand_names
                   plurality_scores == PluralityScores(names, preferences)
                   borda_scores == BordaScores(names, preferences)
                   approval_scores == ApprovalScores(names, preferences)
                   plurality_winner == MaxKey(names, plurality_scores)
                   borda_winner == MaxKey(names, borda_scores)
                   approval_winner == MaxKey(names, approval_scores)
                   all_agree == /\ plurality_winner = borda_winner
                                /\ borda_winner = approval_winner
                   agreements == loc.agreements + (IF all_agree THEN 1 ELSE 0)
                   condorcet == CondorcetWinners(names, preferences)
               IN  /\ loc' = [loc EXCEPT
                         !.plurality_wins[plurality_winner] = @ + 1,
                         !.borda_wins[borda_winner] = @ + 1,
                         !.approval_wins[approval_winner] = @ + 1,
                         !.agreements = agreements,
                         !.condorcet_exists_count =
                             @ + (IF Len(condorcet) > 0 THEN 1 ELSE 0)]
                   /\ r' = r + 1
                   /\ round_data' = Append(round_data,
                         [round_num |-> r + 1,
                          actions |-> <<plurality_winner, borda_winner,
                                        approval_winner>>,
                          payoffs |-> <<IF all_agree THEN 1 ELSE 0>>,
                          state |-> [plurality |-> plurality_scores,
                                     borda |-> borda_scores,
                                     approval |-> approval_scores,
                                     condorcet |-> IF Len(condorcet) > 0 THEN condorcet[1]
                                                   ELSE None,
                                     agreement |-> all_agree,
                                     agreement_rate |->
                                         Round(Frac(agreements, r + 1), 3)]])
                   /\ UNCHANGED <<pc, err>>
    /\ UNCHANGED <<game, config, result, regVars>>

\* the return statement
VGReturn ==
    /\ pc = "loop"
    /\ game = VG
    /\ r >= loc.sims
    /\ IF loc.sims = 0
       THEN \* 100*agreements/sims
            /\ pc' = "raised"
            /\ err' = ZeroDivisionError
            /\ UNCHANGED result
       ELSE LET Distribution(wins) ==
                    [c \in DOMAIN wins |-> Round(Frac(wins[c], loc.sims), 3)]
            IN  /\ pc' = "returned"
                /\ result' =
                     [game_id |-> game, config |-> config, rounds |-> round_data,
                      equilibria |-> <<[name |-> "System Comparison",
                                        strategies |-> loc.cand_names]>>,
                      summary |->
                         [plurality_distribution |-> Distribution(loc.plurality_wins),
                          borda_distribution |-> Distribution(loc.borda_wins),
                          approval_distribution |-> Distribution(loc.approval_wins),
                          system_agreement_rate |->
                              Round(Frac(loc.agreements, loc.sims), 3),
                          condorcet_existence_rate |->
                              Round(Frac(loc.condorcet_exists_count, loc.sims), 3)]]
                /\ UNCHANGED err
    /\ UNCHANGED <<game, config, r, loc, round_data, regVars>>

MaxCandidates == 3
MaxVoters == 2

VGConfigs ==
    {MkConfig([n_voters |-> v, n_candidates |-> m, simulations |-> s,
               strategic_fraction |-> FromInt(0)], absent) :
        v \in 0..MaxVoters, m \in 0..MaxCandidates, s \in 0..2,
        absent \in {{}, {"strategic_fraction"}}}

InitVG == game = VG /\ config \in VGConfigs /\ RunStart

NextVG == VGCall \/ VGRound \/ VGReturn

SpecVG == InitVG /\ [][NextVG]_vars

\* ceil(n / 2)
HalfRoundedUp(n) == (n + 1) \div 2

\* the approval scores of one recorded election, added up
ApprovalTotal(i) ==
    LET scores == round_data[i].state.approval
    IN  SumSeq([k \in 1..loc.n_cands |-> scores[loc.cand_names[k]]])

\* C25: under approval voting each voter approves the top ceil(n_candidates / 2)
\* candidates, for every n_candidates >= 1: the approval scores of one election
\* sum to n_voters * ceil(n_candidates / 2).
C25_ApprovalTopHalfRoundedUp ==
    (game = VG /\ pc \in {"loop", "returned"} /\ loc.n_cands >= 1) =>
        \A i \in 1..Len(round_data) :
            ApprovalTotal(i) = loc.n_voters * HalfRoundedUp(loc.n_cands)


----
\* coalition_formation: the coalition structure

\* the coalitions listing agent m
Holding(coalitions, m) == {k \in 1..Len(coalitions) : m \in Members(coalitions[k])}

\* coalitions is a partition of the agents 0..n-1 into non-empty lists without
\* repetition
IsPartition(coalitions, n) ==
    /\ \A m \in 0..(n - 1) : Cardinality(Holding(coalitions, m)) = 1
    /\ \A k \in 1..Len(coalitions) :
          /\ Len(coalitions[k]) > 0
          /\ Members(coalitions[k]) \subseteq 0..(n - 1)
          /\ Cardinality(Members(coalitions[k])) = Len(coalitions[k])
    /\ SumSeq([k \in 1..Len(coalitions) |-> Len(coalitions[k])]) = n

\* C27: after every round the coalition structure is a partition of the agents
\* 0..n-1: every agent belongs to exactly one coalition, no coalition is empty
\* and the coalition sizes sum to n, whatever stay, split and merge decisions
\* were taken.
C27_CoalitionsPartition ==
    (game = CF /\ pc \in {"loop", "returned"}) =>
        /\ IsPartition(loc.coalitions, loc.n)
        /\ \A i \in 1..Len(round_data) : SumSeq(round_data[i].actions) = loc.n

\* two rounds among three agents: a merge in the first, a split back into
\* three coalitions in the second
C27_Witness ==
    /\ game = CF
    /\ pc = "loop"
    /\ loc.n = 3
    /\ r = 2
    /\ round_data[1].state.largest_coalition >= 2
    /\ round_data[2].state.n_coalitions = 3


----
\* tragedy_of_commons: the pool

\* capacities small enough for the pool to fall below 1 within MaxRounds rounds
CommonsConfigs ==
    {MkConfig([rounds |-> n, n_agents |-> p, strategy |-> s,
               resource_capacity |-> c, regeneration_rate |-> g], absent) :
        n \in 0..MaxRounds, p \in 0..MaxAgents, s \in TC_NAMES \cup {Bogus},
        c \in {FromInt(0), Frac(3, 2), FromInt(2), FromInt(Capacity)},
        g \in {FromInt(0), Frac(1, 5), Frac(1, 2), FromInt(2)},
        absent \in {{}, {"strategy"}}}

InitCommons == game = TC /\ config \in CommonsConfigs /\ RunStart

NextCommons == NextTC

SpecCommons == InitCommons /\ [][NextCommons]_vars

\* a run of tragedy_of_commons past its prologue
InCommons == game = TC /\ pc \in {"loop", "returned"}

\* the pass of the loop body that completes round r + 1
RoundPlayed == InCommons /\ r' = r + 1

\* actual of the round just played (line 71)
ActualPlayed == RSub(loc'.total_harvested, loc.total_harvested)

PoolWithinCapacity ==
    (InCommons /\ loc.n >= 1) =>
        RLeq(FromInt(0), loc.pool) /\ RLeq(loc.pool, loc.capacity)

NotDepleted == loc.depleted_round = <<>>

DepletionRecorded ==
    InCommons =>
        IF NotDepleted
        THEN r = 0 \/ RLeq(FromInt(1), loc.pool)
        ELSE loc.depleted_round[1] \in 1..r

\* C29: depletion is absorbing: once the pool is below 1 after some round, it
\* is 0 after the next round and stays 0 in every later round, whatever the
\* regeneration_rate; depleted_round is the first round after which the pool
\* was below 1 and is never changed afterwards.
C29_DepletionAbsorbing ==
    /\ []DepletionRecorded
    /\ [][RoundPlayed =>
             /\ (r >= 1 /\ RLess(loc.pool, FromInt(1))) => loc'.pool = FromInt(0)
             /\ loc'.depleted_round =
                   IF ~NotDepleted THEN loc.depleted_round
                   ELSE IF RLess(loc'.pool, FromInt(1)) THEN <<r'>> ELSE <<>>]_vars

\* a pool left positive and below 1 by the first round, regrowing at a positive
\* rate, and empty two rounds later
C29_Witness ==
    /\ InCommons
    /\ r = 3
    /\ loc.depleted_round = <<1>>
    /\ RLess(FromInt(0), round_data[1].state.pool)
    /\ RLess(FromInt(0), loc.regen)
    /\ round_data[2].state.pool = FromInt(0)
    /\ loc.pool = FromInt(0)


----
\* reputation_trust: one run

\* compute(), up to the loop
RTCall ==
    /\ pc = "call"
    /\ game = RT
    /\ loc' = RTLocals(config)
    /\ pc' = "loop"
    /\ r' = 0
    /\ round_data' = <<>>
    /\ UNCHANGED <<game, config, err, result, regVars>>

\* one pass of the loop body
RTRound ==
    /\ pc = "loop"
    /\ game = RT
    /\ r < loc.rounds
    /\ \E after \in Step(RT, loc, round_data, r) :
          /\ loc' = after.loc
          /\ round_data' = after.round_data
    /\ r' = r + 1
    /\ UNCHANGED <<game, config, pc, err, result, regVars>>

\* the return statement
RTReturn ==
    /\ pc = "loop"
    /\ game = RT
    /\ r >= loc.rounds
    /\ IF ReturnRaises(RT, loc)
       THEN /\ pc' = "raised"
            /\ err' = ZeroDivisionError
            /\ UNCHANGED result
       ELSE /\ pc' = "returned"
            /\ result' = [game_id |-> game, config |-> config,
                          rounds |-> round_data, summary |-> RTSummary(loc)]
            /\ UNCHANGED err
    /\ UNCHANGED <<game, config, r, loc, round_data, regVars>>

RTConfigs ==
    {MkConfig([rounds |-> n, trustor_strategy |-> a, trustee_type |-> b,
               trust_decay |-> d], absent) :
        n \in 0..MaxRounds, a \in RT_NAMES \cup {Bogus},
        b \in TRUSTEE_TYPE_NAMES \cup {Bogus}, d \in {Frac(2, 100), Frac(1, 2)},
        absent \in {{}, {"trustor_strategy"}, {"trustee_type", "trust_decay"}}}

InitRT == game = RT /\ config \in RTConfigs /\ RunStart

NextRT == RTCall \/ RTRound \/ RTReturn

SpecRT == InitRT /\ [][NextRT]_vars

\* the locals of the same run with the 'honest' trustee
AsHonest(l) == [l EXCEPT !.tt = "honest"]

====
